---- MODULE Spec2Model ----
(***************************************************************************)
(* Verification model of mysql-load-test.                                  *)
(*                                                                         *)
(* The module holds one state machine per component.  Every component has  *)
(* its own variables, its own initial predicate and its own actions; a     *)
(* component's specification leaves the variables of the others untouched. *)
(*                                                                         *)
(*   SpecLRU     internal/lrucache/lrucache.go                             *)
(*   SpecRetry   internal/cmd/load-test/main.go (DBConn.withRetry)         *)
(*   SpecRing    internal/ringbuffer/ringbuffer.go                         *)
(*   SpecCodec   query-collector OutputCache.StartOutput (blob sink) and   *)
(*               internal/cmd/load-test/query_source_file.go (Init and     *)
(*               GetRandomWeightedQuery)                                   *)
(*   SpecProc    query-collector Processor.processorGoroutine              *)
(*   SpecColl    query-collector CollectCmd.Execute and its tasks          *)
(*   SpecSink    OutputDB.StartOutput (batched DB sink), dbloader and      *)
(*               query-collector                                          *)
(*   SpecReport  internal/cmd/load-test/reporter.go and web_ui.go, with    *)
(*               the latencies as values, over a few ticks                 *)
(*   SpecHistory the reporter's history of aggregates over many ticks      *)
(*   SpecTrim    query-collector bytesTrimSpace                            *)
(*   SpecSamp    QueryFingerprintWeights.GetRandomWeighted                 *)
(*   SpecLoad    performLoadTest: querier workers, token source, results   *)
(*               queue and reporter loop                                   *)
(*   SpecQc      QuerySourceDB.GetRandomWeightedQuery and queriesCaches    *)
(*   SpecScan    QuerySourceFile.Init on a blob that may be cut short      *)
(*   SpecDbi     QuerySourceDB.Init                                        *)
(*   SpecEx      InputTsharkTxt.extractQueries (text extractor)            *)
(*   SpecNl      internal/filemap/file.go (newline positions)              *)
(*   SpecWdb     DBConn.withDB and DBConn.connect (handle replacement)     *)
(***************************************************************************)
EXTENDS Integers, Sequences, FiniteSets, TLC

VARIABLES
    \* ---- lrucache.LRUCache ------------------------------------------
    cache,      \* keys of the map  cache map[K]*list.Element
    list,       \* container/list contents, front first, of entry{key,value}
    size,       \* capacity given to New
    stats,      \* LRUCacheStats
    pc,         \* per task: position inside GetOrSet ("idle" outside a call)
    callKey,    \* per task: key argument of the running GetOrSet
    newv,       \* per task: value returned by fn()
    fnCalls,    \* per task: number of times fn ran in the running GetOrSet
    ret,        \* what the operation that returned last returned, and to whom
    touched,    \* the keys present, ordered by their latest get hit / set / get_or_set, newest first
    nops,       \* number of operations started (bounds the run)
    \* ---- load-test DBConn.withRetry ---------------------------------
    cfg,          \* RetryConfig as passed to NewDBConn
    retryConfig,  \* DBConn.retryConfig, as NewDBConn stored it
    plan,         \* what operation() returns on its 1st, 2nd, ... invocation
    rpc,          \* position inside withRetry
    attempt,      \* loop variable attempt
    delay,        \* local delay (milliseconds)
    lastErr,      \* local lastErr
    ctxDone,      \* ctx.Done() is closed
    db,           \* DBConn.db: number of the pool handle in use (older ones are closed)
    log,          \* what withRetry did so far, in order
    result,       \* what withRetry returned
    \* ---- ringbuffer.RingBuffer --------------------------------------
    rsize,        \* RingBuffer.size
    off,          \* RingBuffer.off
    count,        \* RingBuffer.count
    data,         \* RingBuffer.data (index 0 is data[1] here)
    appended,     \* every value given to Append so far, in order
    got,          \* what the last GetAll returned
    \* ---- blob sink (OutputCache) and replay reader (QuerySourceFile) --
    encoding,     \* OutputCommonConfig.Encoding
    inQueryChan,  \* records still in the sink's input channel (closed behind them)
    sent,         \* every record put on the channel, in order
    bufw,         \* bytes held by the bufio.Writer o.writer
    zhdr,         \* the gzip writer has written its header
    zheld,        \* bytes handed to the compressor and not written to the file
    file,         \* content of the output file
    fileOpen,     \* the output file is still open for writing
    wbytes,       \* number of bytes StartOutput gave to o.writer.Write
    cpc,          \* position: StartOutput, Destroy, then Init of the reader
    dataBuffer,   \* QuerySourceFile.dataBuffer
    cursor,       \* local cursor of Init
    queryInfos,   \* QuerySourceFile.queryInfos
    fingerprintIndex,   \* QuerySourceFile.fingerprintIndex
    fingerprintCounts,  \* local fingerprintCounts of Init
    totalQueries, \* local totalQueries of Init
    weights,      \* QuerySourceFile.fingerprintWeights.weights
    initErr,      \* what Init returned (<<>> is nil)
    inits,        \* per finished call of Init: what it returned and left behind
    queried,      \* what the last call of GetRandomWeightedQuery returned (<<>>: no call yet)
    \* ---- Processor (query-collector) --------------------------------
    procIn,                 \* every record put on the Processor's input channel, in order
    extractedQueriesChan,   \* records the extractor sent, not yet received (closed behind them)
    processedQueriesChan,   \* records the workers forwarded, in order
    pctxDone,               \* the collector's context is cancelled
    wq,                     \* per worker: the record it holds (<<q>>), or <<>>
    wpc,                    \* per worker: position inside processorGoroutine
    bufcap,                 \* per worker: cap(buf)
    rawQueriesCache,        \* Processor.rawQueriesCache.data
    rawQueriesHashCache,    \* Processor.rawQueriesHashCache.data
    fingerprintsCache,      \* Processor.fingerprintsCache.data
    fingerprintsHashCache,  \* Processor.fingerprintsHashCache.data
    errsChan,               \* what the workers sent on errsChan
    progress,               \* Processor.progress
    \* ---- the collector (CollectCmd.Execute) --------------------------
    cctx,         \* the context: "live" or "cancelled"
    ccause,       \* context.Cause(ctx)
    toExtract,    \* records the input still holds
    nextId,       \* number of the next record extracted
    cin,          \* extractedQueriesChan
    cinClosed,    \* extractedQueriesChan is closed
    cout,         \* processedQueriesChan
    coutClosed,   \* processedQueriesChan is closed
    epc,          \* position of the extractor task
    cwpc,         \* per worker: position
    cwq,          \* per worker: the record it is about to forward
    ppc,          \* position of the task running StartProcessingQueries
    spc,          \* position of the sink task
    consumed,     \* records the sink wrote, in order
    forwarded,    \* records the workers forwarded, in order
    cerrs,        \* number of errors waiting in errsChan
    lpc,          \* position of the task that logs errsChan
    mpc,          \* position of Execute
    mresult,      \* what Execute returned
    destroyed,    \* the deferred Destroy / Close calls of Execute have run
    stageFailed,  \* a stage returned an error of its own
    signalled     \* SIGTERM / SIGINT was delivered

\* batched DB sink
VARIABLES
    dbImpl,       \* which OutputDB: "dbloader" or "collector"
    batchSize,    \* cfg.BatchSize
    dbTruncate,   \* cfg.Truncate
    dbChan,       \* inQueryChan: the records still to be received
    dbClosed,     \* the upstream stage closes inQueryChan after them
    batch,        \* the batch being filled
    received,     \* the records received so far
    submitted,    \* the batches handed to an insert, with the insert's state
    dbpc,         \* position of StartOutput
    dbResult      \* what StartOutput returned

\* reporter
VARIABLES
    Lats,         \* r.Lats
    NumRes,       \* r.NumRes
    AvgTotal,     \* r.AvgTotal
    Aggregates,   \* r.Aggregates
    CacheHitRate, \* r.InternalStats.CacheHitRate
    givenHitRate, \* <<CacheHitRate of the report the last sanitizeReport was given>>
    clients,      \* ui.clients
    written,      \* the snapshots written to clients
    sanitized,    \* <<report>>: what the last sanitizeReport returned
    lastLats,     \* r.Lats as the last aggregate() found it
    lastAgg,      \* <<aggregate>>: what the last aggregate() built
    ticks         \* ticks taken

\* reporter history
VARIABLES
    history,      \* r.Aggregates, as pointers
    allocated,    \* aggregates built so far
    pending,      \* len(r.Lats)
    newest,       \* the aggregate built by the last aggregate(), 0: none
    before,       \* r.Aggregates before the last insertAggregate
    hpc           \* "run" while the reporter runs

\* in-place trim
VARIABLES
    trimIn,       \* the byte string given to bytesTrimSpace
    trimOut,      \* the slice it returned
    trimPc,       \* "call" before the call, "done" after
    trimCap,      \* cap(b) of the slice given
    trimOutCap    \* cap of the slice returned

\* weighted sampler
VARIABLES
    sampWeights,  \* qw.weights, the weight of each entry
    sampR,        \* the draw of the last call, in units of 1 / Grid
    sampChosen,   \* the entry the last call returned, 0: nil
    sampPc        \* "ready" once the weights are added

\* load test: workers, token source, results queue, reporter
VARIABLES
    qVariant,     \* which Querier: "fast" or "explain"
    qGating,      \* q.qpsTicker != nil
    lctx,         \* the context: "live" or "cancelled"
    tickerC,      \* tokens in qpsTicker.C (capacity 1)
    tickerStopped,\* qpsTicker.Stop() has run
    emitted,      \* tokens put into qpsTicker.C so far
    entered,      \* times a worker took the default branch of Run
    qpc,          \* per worker: position in Run
    qres,         \* per worker: <<result>> of do before it is sent
    qtokens,      \* per worker: tokens received
    qstarted,     \* per worker: executions started
    resultsChan,  \* the results queue
    fatalOpen,    \* the reader of fatalErrsChan still receives
    reppc,        \* position of runReporter
    lNumRes,      \* r.NumRes
    lErrorDist,   \* the sum of the counts in r.ErrorDist
    lLats,        \* len(r.Lats)
    lReceived,    \* results the reporter received
    lastHandled,  \* <<what the reporter did with the last result>>
    mainReturned  \* performLoadTest has returned

\* replay source on a database: the map queriesCaches
VARIABLES
    qcVariant,     \* which GetRandomWeightedQuery: "recheck" or "stale"
    queriesCaches, \* qsdb.queriesCaches[fingerprintHash]: <<>> or <<cache>>
    qcContents,    \* per cache made so far: the query ids it holds
    qcInstalled,   \* the caches stored into the map, in order
    qcSets,        \* <<cache, id>> of every Set so far
    qcpc,          \* per worker: position in GetRandomWeightedQuery
    qcLocal,       \* per worker: its queriesCache / queryCache
    qcExists,      \* per worker: its cacheExists
    qcId,          \* per worker: its queryId
    qcCalls        \* per worker: calls started

\* replay source on a database: Init
VARIABLES
    dbiRows,       \* the weights of the rows the weights query returns
    dbiQueryErr,   \* the weights query fails
    dbiScanFail,   \* the row at which rows.Scan fails, 0 for none
    dbiIdsErr,     \* fetchQueryIds fails
    dbiPc,         \* position in Init
    dbiErr,        \* err of Init: <<>> for nil
    dbiTotalWeight,\* qsdb.fingerprintWeights.totalWeight
    dbiRet         \* what Init returned

\* text extractor
VARIABLES
    exIn,          \* the bytes of the input stream
    exOffset,      \* offset
    exOut,         \* the queries sent to outChan: Offset and Length
    exPc           \* position of extractQueries

\* newline index
VARIABLES
    nlFile,        \* the bytes of the file
    lastPos,       \* lastPos: bytes read so far
    positions,     \* m.positions
    nlPc           \* position of findNewLinesPositions

\* DBConn.withDB with several workers
VARIABLES
    wdbCur,        \* d.db
    wdbClosed,     \* the handles that have been closed
    wdbOpened,     \* handles opened so far
    wdbPc,         \* per worker: position in withDB / withRetry
    wdbLocal,      \* per worker: db, the handle it resolved
    wdbCalls       \* operations started, all workers

lruVars == <<cache, list, size, stats, pc, callKey, newv, fnCalls, ret, touched, nops>>

retryVars == <<cfg, retryConfig, plan, rpc, attempt, delay, lastErr, ctxDone, db, log, result>>

ringVars == <<rsize, off, count, data, appended, got>>

codecVars == <<encoding, inQueryChan, sent, bufw, zhdr, zheld, file, fileOpen, wbytes, cpc,
               dataBuffer, cursor, queryInfos, fingerprintIndex, fingerprintCounts,
               totalQueries, weights, initErr, inits, queried>>

procVars == <<procIn, extractedQueriesChan, processedQueriesChan, pctxDone, wq, wpc, bufcap,
              rawQueriesCache, rawQueriesHashCache, fingerprintsCache,
              fingerprintsHashCache, errsChan, progress>>

collVars == <<cctx, ccause, toExtract, nextId, cin, cinClosed, cout, coutClosed, epc, cwpc,
              cwq, ppc, spc, consumed, forwarded, cerrs, lpc, mpc, mresult, destroyed,
              stageFailed, signalled>>

sinkVars == <<dbImpl, batchSize, dbTruncate, dbChan, dbClosed, batch, received, submitted,
              dbpc, dbResult>>

repVars == <<Lats, NumRes, AvgTotal, Aggregates, CacheHitRate, givenHitRate, clients, written, sanitized,
             lastLats, lastAgg, ticks>>

histVars == <<history, allocated, pending, newest, before, hpc>>

trimVars == <<trimIn, trimOut, trimPc, trimCap, trimOutCap>>

sampVars == <<sampWeights, sampR, sampChosen, sampPc>>

loadVars == <<qVariant, qGating, lctx, tickerC, tickerStopped, emitted, entered, qpc, qres,
              qtokens, qstarted, resultsChan, fatalOpen, reppc, lNumRes, lErrorDist, lLats,
              lReceived, lastHandled, mainReturned>>

qcVars == <<qcVariant, queriesCaches, qcContents, qcInstalled, qcSets, qcpc, qcLocal,
            qcExists, qcId, qcCalls>>

dbiVars == <<dbiRows, dbiQueryErr, dbiScanFail, dbiIdsErr, dbiPc, dbiErr, dbiTotalWeight,
             dbiRet>>

exVars == <<exIn, exOffset, exOut, exPc>>

nlVars == <<nlFile, lastPos, positions, nlPc>>

wdbVars == <<wdbCur, wdbClosed, wdbOpened, wdbPc, wdbLocal, wdbCalls>>

vars == <<lruVars, retryVars, ringVars, codecVars, procVars, collVars, sinkVars, repVars,
          histVars,
          trimVars,
          sampVars,
          loadVars,
          qcVars,
          dbiVars,
          exVars,
          nlVars,
          wdbVars>>

----------------------------------------------------------------------------
(* Bounds *)
MaxSize  == 2          \* largest capacity given to New
NumKeys  == 3          \* number of distinct keys
NumVals  == 2          \* number of distinct non-zero values
NumTasks == 2          \* goroutines using one cache
MaxOps   == 3          \* operations started in one run
MaxRetriesCfg == 2     \* largest RetryConfig.MaxRetries passed to NewDBConn
MaxRing    == 3        \* largest ring buffer capacity
MaxAppends == 4        \* Append calls in one run
NumRingVals == 2       \* number of distinct non-zero values appended
MaxRecords == 2        \* records put on the blob sink's input channel
LongLen    == 257      \* length of the longest raw written (two length bytes)
NumWorkers == 2        \* ProcessorConfig.MaxConcurrency
MaxIn      == 2        \* records the extractor sends
HashMod    == 8        \* number of values of the stand-in for xxhash64
BufSlack   == 1024     \* part_003 line 195: len(q.Raw)+1024
NumCWorkers == 2       \* Processor workers of the collector
MaxExtract == 2        \* records the collector's input holds
ChanCap    == 1        \* capacity of the collector's two channels
ErrsCap    == 1        \* capacity of errsChan
MaxInitCalls == 2      \* calls of Init on one replay source
MaxBatch   == 2        \* cfg.BatchSize of the DB sink is in 0..MaxBatch
MaxSinkIn  == 3        \* records sent to the DB sink
NumClients == 1        \* WebSocket clients
MaxLat     == 2        \* latencies are in 1..MaxLat
MaxLats    == 2        \* results collected between two ticks
MaxTicks   == 2        \* ticks of the reporter with latencies as values
MaxHits    == 1        \* cache hits and misses read at a tick
MaxElapsed == 1        \* clock units between StartAt and a tick
MaxPending == 1        \* latencies kept between two ticks of the history
MaxAggregates == 102   \* aggregates built in the history
MaxTrimLen == 4        \* bytes of an input of the trim
MaxWeight  == 6        \* weights of the sampler are in 0..MaxWeight
MaxEntries == 3        \* entries of the sampler
Grid       == 2        \* draws per unit of weight
MaxIntn    == 4        \* rand.Intn(n) is drawn as j % n for j in 0..MaxIntn-1
NumQueriers == 2       \* querier workers (config.Concurrency)
MaxExec    == 2        \* times the workers go round their loop, in all
ResCap     == 1        \* capacity of the results queue
NumQcWorkers == 2      \* workers calling GetRandomWeightedQuery
MaxQcCalls == 2        \* calls per worker
NumQueryIds == 2       \* query ids of the fingerprint
MaxRows    == 3        \* rows of the weights query
MaxRowWeight == 2      \* largest weight of a row
MaxStream  == 6        \* bytes of the extractor's input stream
MaxSpare   == 1        \* spare capacity of the slice given to the trim
MaxFileLen == 5        \* bytes of the file of the newline index
MaxChunk   == 3        \* bytes one Read returns at most
NumWdbWorkers == 2     \* workers using one DBConn
MaxWdbCalls == 4       \* operations started through withDB
LatVals    == 1..MaxLat
BurstLens  == {20, 40}  \* lengths of the long latency lists

\* reporter.go: const maxRes, const maxAggregatesHistory
maxRes == 1000000
maxAggregatesHistory == 100

Keys  == 1..NumKeys
Vals  == 1..NumVals
Tasks == 1..NumTasks
ZeroK == 0             \* var zeroK K
ZeroV == 0             \* var zero V

----------------------------------------------------------------------------
(* Sequence helpers *)
RECURSIVE SeqWithout(_, _)
SeqWithout(s, k) ==
    IF s = <<>> THEN <<>>
    ELSE IF Head(s).key = k THEN SeqWithout(Tail(s), k)
         ELSE <<Head(s)>> \o SeqWithout(Tail(s), k)

RECURSIVE KeySeqWithout(_, _)
KeySeqWithout(s, k) ==
    IF s = <<>> THEN <<>>
    ELSE IF Head(s) = k THEN KeySeqWithout(Tail(s), k)
         ELSE <<Head(s)>> \o KeySeqWithout(Tail(s), k)

KeysOf(s) == {s[i].key : i \in 1..Len(s)}

----------------------------------------------------------------------------
(* container/list and the entry type *)
entry(k, v) == [key |-> k, value |-> v]

\* the element the map points to for key k
Elem(l, k) == l[CHOOSE i \in 1..Len(l) : l[i].key = k]

MoveToFrontNoop(l, k) == l
MoveToFront(l, k) == <<Elem(l, k)>> \o SeqWithout(l, k)

PushFront(l, e) == <<e>> \o l

Back(l) == l[Len(l)]
RemoveFront(l) == Tail(l)
RemoveBack(l) == SubSeq(l, 1, Len(l) - 1)

\* elem.Value.(entry[K, V]).value for the element of key k
ValueZero(l, k) == ZeroV
Value(l, k) == Elem(l, k).value

\* the second  c.cache[key]  lookup of GetOrSet, made after fn returned
RecheckSkipped(k) == FALSE
Recheck(k) == k \in cache

\* ghost: k becomes the most recently touched key
Touch(t, k) == <<k>> \o KeySeqWithout(t, k)
\* ghost: a key that is no longer present has no touch to remember
Forget(t, present) == SelectSeq(t, LAMBDA k : k \in present)

ZeroStats == [HitsTotal |-> 0, MissesTotal |-> 0, EvictionsTotal |-> 0,
              MoveToFrontTotal |-> 0, NewItemsTotal |-> 0]

Bump(s, f) == [s EXCEPT ![f] = @ + 1]

\* A returned call: the operation and key, the returned (val, ok),
\* and for GetOrSet how often fn ran and what it produced.
ReturnedPresent(o, k, v, b, n, p) ==
    [op |-> o, key |-> k, val |-> v, ok |-> TRUE, fn |-> n, produced |-> p]
Returned(o, k, v, b, n, p) ==
    [op |-> o, key |-> k, val |-> v, ok |-> b, fn |-> n, produced |-> p]

NoRet == Returned("none", ZeroK, ZeroV, FALSE, 0, ZeroV)

\* locals of a call that has returned
Leave(f, t, z) == [f EXCEPT ![t] = z]

----------------------------------------------------------------------------
(* lrucache.New *)
LRUNew ==
    /\ size \in 1..MaxSize
    /\ cache = {}
    /\ list = <<>>
    /\ stats = ZeroStats
    /\ pc = [t \in Tasks |-> "idle"]
    /\ callKey = [t \in Tasks |-> ZeroK]
    /\ newv = [t \in Tasks |-> ZeroV]
    /\ fnCalls = [t \in Tasks |-> 0]
    /\ ret = NoRet
    /\ touched = <<>>
    /\ nops = 0

\* no cache has been created
LRUOff ==
    /\ size = 0
    /\ cache = {}
    /\ list = <<>>
    /\ stats = ZeroStats
    /\ pc = [t \in Tasks |-> "idle"]
    /\ callKey = [t \in Tasks |-> ZeroK]
    /\ newv = [t \in Tasks |-> ZeroV]
    /\ fnCalls = [t \in Tasks |-> 0]
    /\ ret = NoRet
    /\ touched = <<>>
    /\ nops = 0

CanStart(t) == pc[t] = "idle" /\ nops < MaxOps

(* GetOrSet, first critical section (lines 42-51) *)
GetOrSetLock(t, k) ==
    /\ CanStart(t)
    /\ nops' = nops + 1
    /\ IF k \in cache
       THEN /\ stats' = Bump(Bump(stats, "HitsTotal"), "MoveToFrontTotal")
            /\ list' = MoveToFront(list, k)
            /\ touched' = Touch(touched, k)
            /\ ret' = Returned("GetOrSet", k, Value(list, k), TRUE, 0, ZeroV)
            /\ UNCHANGED <<pc, callKey>>
       ELSE /\ stats' = Bump(stats, "MissesTotal")
            /\ pc' = [pc EXCEPT ![t] = "fn"]
            /\ callKey' = [callKey EXCEPT ![t] = k]
            /\ UNCHANGED <<list, touched, ret>>
    /\ UNCHANGED <<cache, size, newv, fnCalls>>
    /\ UNCHANGED <<retryVars, ringVars, codecVars, procVars, collVars, sinkVars, repVars, histVars, trimVars, sampVars, loadVars, qcVars, dbiVars, exVars, nlVars, wdbVars>>

(* GetOrSet, the producer runs without the lock (lines 53-57) *)
GetOrSetFnOk(t, v) ==
    /\ pc[t] = "fn"
    /\ fnCalls' = [fnCalls EXCEPT ![t] = @ + 1]
    /\ newv' = [newv EXCEPT ![t] = v]
    /\ pc' = [pc EXCEPT ![t] = "relock"]
    /\ UNCHANGED <<cache, list, size, stats, callKey, ret, touched, nops>>
    /\ UNCHANGED <<retryVars, ringVars, codecVars, procVars, collVars, sinkVars, repVars, histVars, trimVars, sampVars, loadVars, qcVars, dbiVars, exVars, nlVars, wdbVars>>

GetOrSetFnErr(t) ==
    /\ pc[t] = "fn"
    /\ ret' = Returned("GetOrSet", callKey[t], ZeroV, FALSE, fnCalls[t] + 1, ZeroV)
    /\ pc' = [pc EXCEPT ![t] = "idle"]
    /\ callKey' = Leave(callKey, t, ZeroK)
    /\ UNCHANGED <<cache, list, size, stats, newv, fnCalls, touched, nops>>
    /\ UNCHANGED <<retryVars, ringVars, codecVars, procVars, collVars, sinkVars, repVars, histVars, trimVars, sampVars, loadVars, qcVars, dbiVars, exVars, nlVars, wdbVars>>

(* GetOrSet, second critical section (lines 59-85) *)
Full(l) == Len(l) >= size /\ l # <<>>
Evict(l) == IF Full(l) THEN RemoveBack(l) ELSE l

GetOrSetRelock(t) ==
    /\ pc[t] = "relock"
    /\ pc' = [pc EXCEPT ![t] = "idle"]
    /\ LET k == callKey[t] IN
       IF Recheck(k)
       THEN /\ stats' = Bump(Bump(stats, "HitsTotal"), "MoveToFrontTotal")
            /\ list' = MoveToFront(list, k)
            /\ ret' = Returned("GetOrSet", k, Value(list, k), TRUE, fnCalls[t], newv[t])
            /\ UNCHANGED cache
       ELSE /\ stats' = LET s1 == Bump(stats, "MissesTotal")
                            s2 == IF Full(list)
                                  THEN Bump(s1, "EvictionsTotal") ELSE s1
                        IN  Bump(s2, "NewItemsTotal")
            /\ list' = PushFront(Evict(list), entry(k, newv[t]))
            /\ cache' = (IF Full(list) THEN cache \ {Back(list).key} ELSE cache) \cup {k}
            /\ ret' = Returned("GetOrSet", k, newv[t], FALSE, fnCalls[t], newv[t])
    /\ touched' = Forget(Touch(touched, callKey[t]), cache')
    /\ callKey' = Leave(callKey, t, ZeroK)
    /\ newv' = Leave(newv, t, ZeroV)
    /\ fnCalls' = Leave(fnCalls, t, 0)
    /\ UNCHANGED <<size, nops>>
    /\ UNCHANGED <<retryVars, ringVars, codecVars, procVars, collVars, sinkVars, repVars, histVars, trimVars, sampVars, loadVars, qcVars, dbiVars, exVars, nlVars, wdbVars>>

(* Get (lines 88-100) *)
Get(t, k) ==
    /\ CanStart(t)
    /\ nops' = nops + 1
    /\ IF k \in cache
       THEN /\ stats' = Bump(Bump(stats, "HitsTotal"), "MoveToFrontTotal")
            /\ list' = MoveToFront(list, k)
            /\ touched' = Touch(touched, k)
            /\ ret' = Returned("Get", k, Value(list, k), TRUE, 0, ZeroV)
       ELSE /\ stats' = Bump(stats, "MissesTotal")
            /\ ret' = Returned("Get", k, ZeroV, FALSE, 0, ZeroV)
            /\ UNCHANGED <<list, touched>>
    /\ UNCHANGED <<cache, size, pc, callKey, newv, fnCalls>>
    /\ UNCHANGED <<retryVars, ringVars, codecVars, procVars, collVars, sinkVars, repVars, histVars, trimVars, sampVars, loadVars, qcVars, dbiVars, exVars, nlVars, wdbVars>>

(* Set (lines 102-117) *)
Set(t, k, v) ==
    /\ CanStart(t)
    /\ nops' = nops + 1
    /\ IF k \in cache
       THEN /\ list' = <<entry(k, v)>> \o SeqWithout(list, k)
            /\ stats' = Bump(stats, "MoveToFrontTotal")
            /\ UNCHANGED cache
       ELSE /\ list' = PushFront(list, entry(k, v))
            /\ stats' = Bump(stats, "NewItemsTotal")
            /\ cache' = cache \cup {k}
    /\ touched' = Touch(touched, k)
    /\ ret' = Returned("Set", k, v, TRUE, 0, ZeroV)
    /\ UNCHANGED <<size, pc, callKey, newv, fnCalls>>
    /\ UNCHANGED <<retryVars, ringVars, codecVars, procVars, collVars, sinkVars, repVars, histVars, trimVars, sampVars, loadVars, qcVars, dbiVars, exVars, nlVars, wdbVars>>

(* Peek (lines 119-127) *)
Peek(t, k) ==
    /\ CanStart(t)
    /\ nops' = nops + 1
    /\ ret' = IF k \in cache
              THEN Returned("Peek", k, Value(list, k), TRUE, 0, ZeroV)
              ELSE Returned("Peek", k, ZeroV, FALSE, 0, ZeroV)
    /\ UNCHANGED <<cache, list, size, stats, pc, callKey, newv, fnCalls, touched>>
    /\ UNCHANGED <<retryVars, ringVars, codecVars, procVars, collVars, sinkVars, repVars, histVars, trimVars, sampVars, loadVars, qcVars, dbiVars, exVars, nlVars, wdbVars>>

(* RecentyUsed (lines 129-139) and LeastRecentyUsed (lines 141-151) *)
RecentyUsed ==
    IF list = <<>> THEN <<ZeroK, ZeroV>> ELSE <<Head(list).key, Head(list).value>>

LeastRecentyUsed ==
    IF list = <<>> THEN <<ZeroK, ZeroV>> ELSE <<Back(list).key, Back(list).value>>

----------------------------------------------------------------------------
(* DBConn.withRetry, internal/cmd/load-test/main.go *)

DefaultMaxRetries    == 3       \* line 195
DefaultInitialDelay  == 100     \* line 198: 100 * time.Millisecond
DefaultMaxDelay      == 5000    \* line 201: 5 * time.Second
DefaultBackoffFactor == 2       \* line 204: 2.0

\* error messages, as sequences of words
ErrBadConn  == <<"driver:", "bad", "connection">>
ErrRefused  == <<"dial", "tcp", "connection", "refused">>
ErrSyntax   == <<"Error", "1064:", "syntax", "error">>
ErrPing     == <<"failed", "to", "ping", "database:", "connection", "refused">>
OpErrors    == {ErrBadConn, ErrRefused, ErrSyntax}
Outcomes    == {<<>>} \cup OpErrors            \* <<>> is a nil error

\* the fixed substring set of isConnectionError (lines 270-281)
connectionErrors ==
    << <<"connection", "refused">>, <<"connection", "reset">>, <<"broken", "pipe">>,
       <<"no", "such", "host">>, <<"network", "is", "unreachable">>,
       <<"connection", "timed", "out">>, <<"driver:", "bad", "connection">>,
       <<"invalid", "connection">>, <<"server", "has", "gone", "away">>,
       <<"connection", "lost">> >>

\* indexOf (lines 298-305): first position of substr in s, -1 when absent
indexOf(s, substr) ==
    LET hits == {i \in 0..(Len(s) - Len(substr)) :
                    SubSeq(s, i + 1, i + Len(substr)) = substr}
    IN  IF hits = {} THEN -1 ELSE CHOOSE i \in hits : \A j \in hits : i <= j

\* contains (lines 292-296)
contains(s, substr) ==
    /\ Len(s) >= Len(substr)
    /\ \/ s = substr
       \/ /\ Len(s) > Len(substr)
          /\ \/ SubSeq(s, 1, Len(substr)) = substr
             \/ SubSeq(s, Len(s) - Len(substr) + 1, Len(s)) = substr
             \/ indexOf(s, substr) >= 0

\* isConnectionError (lines 263-290)
isConnectionErrorNever(err) == FALSE
isConnectionError(err) ==
    /\ err # <<>>
    /\ \E i \in 1..Len(connectionErrors) : contains(err, connectionErrors[i])

\* NewDBConn (lines 193-210): zero fields take the defaults
OrDefault(v, d) == IF v = 0 THEN d ELSE v
NewDBConn(c) ==
    [MaxRetries    |-> OrDefault(c.MaxRetries, DefaultMaxRetries),
     InitialDelay  |-> OrDefault(c.InitialDelay, DefaultInitialDelay),
     MaxDelay      |-> OrDefault(c.MaxDelay, DefaultMaxDelay),
     BackoffFactor |-> OrDefault(c.BackoffFactor, DefaultBackoffFactor)]

RetryConfigs ==
    [MaxRetries : 0..MaxRetriesCfg, InitialDelay : {0, 40, 200},
     MaxDelay : {0, 100}, BackoffFactor : {0, 3}]

\* the most invocations any configuration allows
MaxAttempts ==
    (IF MaxRetriesCfg > DefaultMaxRetries THEN MaxRetriesCfg ELSE DefaultMaxRetries) + 1

Plans == [1..MaxAttempts -> Outcomes]

NoResult == [kind |-> "running"]

RetryOff ==
    /\ cfg = [MaxRetries |-> 0, InitialDelay |-> 0, MaxDelay |-> 0, BackoffFactor |-> 0]
    /\ retryConfig = cfg
    /\ plan = <<>>
    /\ rpc = "off"
    /\ attempt = 0
    /\ delay = 0
    /\ lastErr = <<>>
    /\ ctxDone = FALSE
    /\ db = 0
    /\ log = <<>>
    /\ result = NoResult

\* NewDBConn, Open, and the entry of withRetry (lines 308-311)
RetryNew ==
    /\ cfg \in RetryConfigs
    /\ retryConfig = NewDBConn(cfg)
    /\ plan \in Plans
    /\ rpc = "op"
    /\ attempt = 0
    /\ delay = retryConfig.InitialDelay
    /\ lastErr = <<>>
    /\ ctxDone = FALSE
    /\ db = 1
    /\ log = <<>>
    /\ result = NoResult

Invocations == Len(SelectSeq(log, LAMBDA e : e[1] = "op"))

\* the loop's attempt++ and its condition (line 311), and the return after the loop (line 344)
LoopLimitShort == retryConfig.MaxRetries - 1
LoopLimit == retryConfig.MaxRetries
NextAttempt(err) ==
    /\ attempt' = attempt + 1
    /\ lastErr' = err
    /\ IF attempt + 1 <= LoopLimit
       THEN rpc' = "sleep" /\ UNCHANGED result
       ELSE /\ rpc' = "done"
            /\ result' = [kind |-> "failed", attempts |-> retryConfig.MaxRetries + 1,
                          err |-> err]

\* err := operation() (lines 325-341)
Operation ==
    /\ rpc = "op"
    /\ LET err == plan[Invocations + 1] IN
       /\ log' = Append(log, <<"op", err>>)
       /\ IF err = <<>>
          THEN /\ rpc' = "done"
               /\ result' = [kind |-> "nil"]
               /\ UNCHANGED <<attempt, lastErr>>
          ELSE IF isConnectionError(err)
               THEN /\ rpc' = "reconnect"
                    /\ lastErr' = err
                    /\ UNCHANGED <<attempt, result>>
               ELSE NextAttempt(err)
    /\ UNCHANGED <<cfg, retryConfig, plan, delay, ctxDone, db>>
    /\ UNCHANGED <<lruVars, ringVars, codecVars, procVars, collVars, sinkVars, repVars, histVars, trimVars, sampVars, loadVars, qcVars, dbiVars, exVars, nlVars, wdbVars>>

\* d.reconnect() under d.mu (lines 333-340, 222-251)
ReconnectOk ==
    /\ rpc = "reconnect"
    /\ db' = db + 1
    /\ log' = Append(log, <<"reconnect", <<>>>>)
    /\ NextAttempt(lastErr)
    /\ UNCHANGED <<cfg, retryConfig, plan, delay, ctxDone>>
    /\ UNCHANGED <<lruVars, ringVars, codecVars, procVars, collVars, sinkVars, repVars, histVars, trimVars, sampVars, loadVars, qcVars, dbiVars, exVars, nlVars, wdbVars>>

ReconnectFail ==
    /\ rpc = "reconnect"
    /\ log' = Append(log, <<"reconnect", ErrPing>>)
    /\ NextAttempt(<<"reconnection", "failed:">> \o ErrPing \o <<"(original", "error:">> \o lastErr)
    /\ UNCHANGED <<cfg, retryConfig, plan, delay, ctxDone, db>>
    /\ UNCHANGED <<lruVars, ringVars, codecVars, procVars, collVars, sinkVars, repVars, histVars, trimVars, sampVars, loadVars, qcVars, dbiVars, exVars, nlVars, wdbVars>>

\* delay = min(delay * BackoffFactor, MaxDelay) (lines 319-322)
Backoff(d) ==
    LET n == d * retryConfig.BackoffFactor
    IN  IF n > retryConfig.MaxDelay THEN retryConfig.MaxDelay ELSE n

\* select: <-time.After(delay) (lines 312-323)
Sleep ==
    /\ rpc = "sleep"
    /\ log' = Append(log, <<"sleep", delay>>)
    /\ delay' = Backoff(delay)
    /\ rpc' = "op"
    /\ UNCHANGED <<cfg, retryConfig, plan, attempt, lastErr, ctxDone, db, result>>
    /\ UNCHANGED <<lruVars, ringVars, codecVars, procVars, collVars, sinkVars, repVars, histVars, trimVars, sampVars, loadVars, qcVars, dbiVars, exVars, nlVars, wdbVars>>

\* select: <-ctx.Done() (lines 314-315)
SleepCancelled ==
    /\ rpc = "sleep"
    /\ ctxDone
    /\ rpc' = "done"
    /\ result' = [kind |-> "ctx"]
    /\ UNCHANGED <<cfg, retryConfig, plan, attempt, delay, lastErr, ctxDone, db, log>>
    /\ UNCHANGED <<lruVars, ringVars, codecVars, procVars, collVars, sinkVars, repVars, histVars, trimVars, sampVars, loadVars, qcVars, dbiVars, exVars, nlVars, wdbVars>>

\* the caller's context is cancelled
CancelCtx ==
    /\ rpc \in {"op", "reconnect", "sleep"}
    /\ ~ctxDone
    /\ ctxDone' = TRUE
    /\ UNCHANGED <<cfg, retryConfig, plan, rpc, attempt, delay, lastErr, db, log, result>>
    /\ UNCHANGED <<lruVars, ringVars, codecVars, procVars, collVars, sinkVars, repVars, histVars, trimVars, sampVars, loadVars, qcVars, dbiVars, exVars, nlVars, wdbVars>>

RetryNext ==
    \/ Operation
    \/ ReconnectOk
    \/ ReconnectFail
    \/ Sleep
    \/ SleepCancelled
    \/ CancelCtx


----------------------------------------------------------------------------
(* Properties of withRetry *)

AllFail == \A i \in 1..MaxAttempts : plan[i] # <<>>

\* what withRetry holds in lastErr after the n-th invocation failed for good
LastError(n) ==
    LET last == log[Len(log)] IN
    IF last[1] = "reconnect" /\ last[2] # <<>>
    THEN <<"reconnection", "failed:">> \o last[2] \o <<"(original", "error:">> \o plan[n]
    ELSE plan[n]

RetryCapFor(maxRetries) ==
    (AllFail /\ ~ctxDone /\ rpc = "done") =>
        /\ result.kind = "failed"
        /\ Invocations = maxRetries + 1
        /\ result.attempts = maxRetries + 1
        /\ result.err = LastError(Invocations)

\* C6: for an operation that fails on every attempt and a context never
\* cancelled, with_retry invokes the operation exactly max_retries + 1 times,
\* for every configured max_retries >= 0, and returns the last error wrapped
\* with the attempt count.
RetryCapConfigured == RetryCapFor(cfg.MaxRetries)

\* C6 (amended): the same with max_retries the value NewDBConn stored, which
\* is the configured one when that is >= 1 and 3 when 0 was configured.
RetryCapEffective ==
    /\ RetryCapFor(retryConfig.MaxRetries)
    /\ retryConfig.MaxRetries = (IF cfg.MaxRetries = 0 THEN 3 ELSE cfg.MaxRetries)
RetryCapEffectiveWitness ==
    /\ AllFail /\ ~ctxDone /\ rpc = "done"
    /\ cfg.MaxRetries = 2
    /\ Invocations = 3
    /\ result.kind = "failed" /\ result.err = ErrSyntax

Min(a, b) == IF a < b THEN a ELSE b

RECURSIVE Pow(_, _)
Pow(b, n) == IF n = 0 THEN 1 ELSE b * Pow(b, n - 1)

\* the sleeps of the call so far, in order
Sleeps == SelectSeq(log, LAMBDA e : e[1] = "sleep")

\* C30: every sleep of with_retry is at most max_delay, the sleep before the
\* k-th retry is min(initial_delay * backoff_factor^(k-1), max_delay), and
\* every invocation but the first comes right after a sleep; the delays and
\* the factor are the ones NewDBConn stored.
SleepsCapped ==
    /\ \A k \in 1..Len(Sleeps) :
           /\ Sleeps[k][2] <= retryConfig.MaxDelay
           /\ Sleeps[k][2] = Min(retryConfig.InitialDelay * Pow(retryConfig.BackoffFactor, k - 1),
                                 retryConfig.MaxDelay)
    /\ \A i \in 2..Len(log) : log[i][1] = "op" => log[i - 1][1] = "sleep"

\* the same for the configurations whose initial_delay is at most max_delay
SleepsCappedFromInitial ==
    retryConfig.InitialDelay <= retryConfig.MaxDelay => SleepsCapped

\* C7: if the operation fails with a connection error on its first j attempts
\* (j <= max_retries) and succeeds on the next, with_retry returns success
\* after exactly j + 1 invocations, a reconnect is attempted after each failed
\* attempt and before the following one, and the operation is not invoked
\* again after it has succeeded.
TransientRecovers ==
    /\ \A i \in 1..Len(log) : log[i] = <<"op", <<>>>> => (i = Len(log) /\ rpc = "done")
    /\ \A j \in 0..(MaxAttempts - 1) :
         ( /\ \A i \in 1..j : plan[i] \in {ErrBadConn, ErrRefused}
           /\ plan[j + 1] = <<>>
           /\ j <= retryConfig.MaxRetries
           /\ rpc = "done" /\ result.kind # "ctx" ) =>
             /\ result.kind = "nil"
             /\ Invocations = j + 1
             /\ Len(log) = 3 * j + 1
             /\ \A i \in 1..j : /\ log[3 * i - 2] = <<"op", plan[i]>>
                                /\ log[3 * i - 1][1] = "reconnect"
                                /\ log[3 * i][1] = "sleep"
             /\ log[3 * j + 1] = <<"op", <<>>>>
TransientRecoversWitness ==
    /\ rpc = "done" /\ result.kind = "nil"
    /\ plan[1] = ErrBadConn /\ plan[2] = ErrBadConn /\ plan[3] = <<>>
    /\ retryConfig.MaxRetries = 3
    /\ Invocations = 3
    /\ log[2] = <<"reconnect", <<>>>> /\ log[5] = <<"reconnect", ErrPing>>

----------------------------------------------------------------------------
(* RingBuffer, internal/ringbuffer/ringbuffer.go *)

ZeroT == 0             \* the zero value of T, as make([]T, size) fills data
RingVals == 1..NumRingVals

RingOff ==
    /\ rsize = 0
    /\ off = 0
    /\ count = 0
    /\ data = <<>>
    /\ appended = <<>>
    /\ got = <<>>

\* NewRingBuffer (lines 15-20)
NewRingBuffer ==
    /\ rsize \in 1..MaxRing
    /\ off = 0
    /\ count = 0
    /\ data = [i \in 1..rsize |-> ZeroT]
    /\ appended = <<>>
    /\ got = <<>>

\* Append (lines 22-30)
RingAppend(d) ==
    /\ Len(appended) < MaxAppends
    /\ data' = [data EXCEPT ![off + 1] = d]
    /\ off' = (off + 1) % rsize
    /\ count' = IF count < rsize THEN count + 1 ELSE count
    /\ appended' = Append(appended, d)
    /\ UNCHANGED <<rsize, got>>
    /\ UNCHANGED <<lruVars, retryVars, codecVars, procVars, collVars, sinkVars, repVars, histVars, trimVars, sampVars, loadVars, qcVars, dbiVars, exVars, nlVars, wdbVars>>

\* the loop of GetAll (lines 41-45): c values are still to be copied, from index o down
RECURSIVE GetAllLoop(_, _, _)
GetAllLoop(dst, c, o) ==
    IF c > 0
    THEN GetAllLoop(Append(dst, data[o + 1]), c - 1, (o - 1 + rsize) % rsize)
    ELSE dst

\* GetAll (lines 32-47)
GetAll(dst) ==
    IF count = 0 THEN <<>> ELSE GetAllLoop(dst, count, off)

RingGetAll(dst) ==
    /\ got' = GetAll(dst)
    /\ UNCHANGED <<rsize, off, count, data, appended>>
    /\ UNCHANGED <<lruVars, retryVars, codecVars, procVars, collVars, sinkVars, repVars, histVars, trimVars, sampVars, loadVars, qcVars, dbiVars, exVars, nlVars, wdbVars>>

\* Count (lines 49-53)
Count == count

RingNext ==
    \/ \E d \in RingVals : RingAppend(d)
    \/ \E dst \in {<<>>, <<ZeroT>>} : RingGetAll(dst)


(* Properties of the ring buffer *)

\* the last n values appended, most recent first
LastReversed(n) == [i \in 1..n |-> appended[Len(appended) - i + 1]]

\* C8: after k >= 1 appends of v1..vk to a ring buffer of capacity N, get_all
\* on an empty dst returns exactly the last min(k, N) appended values, most
\* recent first.
GetAllMostRecentFirst ==
    Len(appended) >= 1 => GetAll(<<>>) = LastReversed(Min(Len(appended), rsize))

----------------------------------------------------------------------------
(* Blob sink: OutputCache (query-collector), and the replay reader:         *)
(* QuerySourceFile.Init (load-test)                                         *)

\* a uint64 is kept as four 16-bit limbs, least significant first
Hash11  == <<17, 0, 0, 0>>                   \* 0x11
HashBig == <<52719, 35243, 17767, 291>>      \* 0x0123456789ABCDEF
Hashes  == {Hash11, HashBig}

RawSelect1 == <<83, 69, 76, 69, 67, 84, 32, 49>>     \* "SELECT 1"
RawOne     == <<49>>                                 \* "1"
RawLong    == [i \in 1..LongLen |-> 65]              \* "AAA...A"
Raws       == {<<>>, RawSelect1, RawOne, RawLong}

\* *query.Query as the sink reads it; a pointer is <<q>>, the nil pointer <<>>
Queries   == [Raw : Raws, FingerprintHash : Hashes]
QueryPtrs == {<<>>} \cup {<<q>> : q \in Queries}

Encodings == {"plain", "gzip", "zstd"}       \* OutputCommon.WrapWriter

RECURSIVE SeqsUpTo(_, _)
SeqsUpTo(S, n) ==
    IF n = 0 THEN {<<>>}
    ELSE LET shorter == SeqsUpTo(S, n - 1)
         IN shorter \cup {Append(s, x) : s \in {t \in shorter : Len(t) = n - 1}, x \in S}

\* binary.LittleEndian.PutUint32 / Uint32 / PutUint64 / Uint64
PutUint32(v) ==
    <<v % 256, (v \div 256) % 256, (v \div 65536) % 256, (v \div 16777216) % 256>>

Uint32Low(b) == b[1]
Uint32(b) == b[1] + 256 * b[2] + 65536 * b[3] + 16777216 * b[4]

PutUint64(v) ==
    <<v[1] % 256, v[1] \div 256, v[2] % 256, v[2] \div 256,
      v[3] % 256, v[3] \div 256, v[4] % 256, v[4] \div 256>>

Uint64(b) ==
    <<b[1] + 256 * b[2], b[3] + 256 * b[4], b[5] + 256 * b[6], b[7] + 256 * b[8]>>

\* b[lo:hi] of a Go slice
Slice(b, lo, hi) == SubSeq(b, lo + 1, hi)

\* the ten header bytes compress/gzip writes before the first deflate block
GzipHeader == <<31, 139, 8, 0, 0, 0, 0, 0, 0, 255>>

CodecOff ==
    /\ encoding = "plain"
    /\ inQueryChan = <<>>
    /\ sent = <<>>
    /\ bufw = <<>>
    /\ zhdr = FALSE
    /\ zheld = <<>>
    /\ file = <<>>
    /\ fileOpen = FALSE
    /\ wbytes = 0
    /\ cpc = "off"
    /\ dataBuffer = <<>>
    /\ cursor = 0
    /\ queryInfos = <<>>
    /\ fingerprintIndex = <<>>
    /\ fingerprintCounts = <<>>
    /\ totalQueries = 0
    /\ weights = <<>>
    /\ initErr = <<>>
    /\ inits = <<>>
    /\ queried = <<>>

\* NewCacheOutput (part_001 lines 27-57) and NewQuerySourceFile (lines 45-53);
\* the producer has put its records on the channel and closed it
NewCacheOutput ==
    /\ encoding \in Encodings
    /\ inQueryChan \in SeqsUpTo(QueryPtrs, MaxRecords)
    /\ sent = inQueryChan
    /\ bufw = <<>>
    /\ zhdr = FALSE
    /\ zheld = <<>>
    /\ file = <<>>
    /\ fileOpen = TRUE
    /\ wbytes = 0
    /\ cpc = "output"
    /\ dataBuffer = <<>>
    /\ cursor = 0
    /\ queryInfos = <<>>
    /\ fingerprintIndex = <<>>
    /\ fingerprintCounts = <<>>
    /\ totalQueries = 0
    /\ weights = <<>>
    /\ initErr = <<>>
    /\ inits = <<>>
    /\ queried = <<>>

\* one record as StartOutput lays it out in buf (lines 90-108)
Record(q) == PutUint32(Len(q.Raw)) \o q.Raw \o PutUint64(q.FingerprintHash)

\* StartOutput, one turn of the loop (lines 85-113)
StartOutputLoop ==
    /\ cpc = "output"
    /\ inQueryChan # <<>>
    /\ LET p == Head(inQueryChan)
       IN IF p = <<>> \/ Len(p[1].Raw) = 0
          THEN UNCHANGED <<bufw, wbytes>>
          ELSE /\ bufw' = bufw \o Record(p[1])
               /\ wbytes' = wbytes + 4 + Len(p[1].Raw) + 8
    /\ inQueryChan' = Tail(inQueryChan)
    /\ UNCHANGED <<encoding, sent, zhdr, zheld, file, fileOpen, cpc, dataBuffer, cursor,
                   queryInfos, fingerprintIndex, fingerprintCounts, totalQueries,
                   weights, initErr, inits, queried>>
    /\ UNCHANGED <<lruVars, retryVars, ringVars, procVars, collVars, sinkVars, repVars, histVars, trimVars, sampVars, loadVars, qcVars, dbiVars, exVars, nlVars, wdbVars>>

\* bufio.Writer.Flush into the writer WrapWriter returned (part_004 lines 40-56):
\* the file itself, or a gzip / zstd writer that nobody flushes or closes
Flush ==
    /\ bufw' = <<>>
    /\ IF bufw = <<>>
       THEN UNCHANGED <<file, zhdr, zheld>>
       ELSE CASE encoding = "plain" ->
                     /\ file' = file \o bufw
                     /\ UNCHANGED <<zhdr, zheld>>
              [] encoding = "gzip" ->
                     /\ file' = IF zhdr THEN file ELSE file \o GzipHeader
                     /\ zhdr' = TRUE
                     /\ zheld' = zheld \o bufw
              [] encoding = "zstd" ->
                     /\ zheld' = zheld \o bufw
                     /\ UNCHANGED <<file, zhdr>>

\* StartOutput returns when the channel is drained (line 115), the deferred
\* Flush runs (line 83)
StartOutputReturn ==
    /\ cpc = "output"
    /\ inQueryChan = <<>>
    /\ Flush
    /\ cpc' = "returned"
    /\ UNCHANGED <<encoding, inQueryChan, sent, fileOpen, wbytes, dataBuffer, cursor,
                   queryInfos, fingerprintIndex, fingerprintCounts, totalQueries,
                   weights, initErr, inits, queried>>
    /\ UNCHANGED <<lruVars, retryVars, ringVars, procVars, collVars, sinkVars, repVars, histVars, trimVars, sampVars, loadVars, qcVars, dbiVars, exVars, nlVars, wdbVars>>

\* Destroy (lines 59-73): flush, then close the closers, which hold the file only
Destroy ==
    /\ cpc = "returned"
    /\ Flush
    /\ fileOpen' = FALSE
    /\ cpc' = "closed"
    /\ UNCHANGED <<encoding, inQueryChan, sent, wbytes, dataBuffer, cursor,
                   queryInfos, fingerprintIndex, fingerprintCounts, totalQueries,
                   weights, initErr, inits, queried>>
    /\ UNCHANGED <<lruVars, retryVars, ringVars, procVars, collVars, sinkVars, repVars, histVars, trimVars, sampVars, loadVars, qcVars, dbiVars, exVars, nlVars, wdbVars>>

\* Init of the reader, up to the loop (lines 60-73)
InitReadAll ==
    /\ cpc = "closed"
    /\ dataBuffer' = file
    /\ cursor' = 0
    /\ fingerprintCounts' = <<>>
    /\ totalQueries' = 0
    /\ cpc' = "scan"
    /\ UNCHANGED <<encoding, inQueryChan, sent, bufw, zhdr, zheld, file, fileOpen, wbytes,
                   queryInfos, fingerprintIndex, weights, initErr, inits, queried>>
    /\ UNCHANGED <<lruVars, retryVars, ringVars, procVars, collVars, sinkVars, repVars, histVars, trimVars, sampVars, loadVars, qcVars, dbiVars, exVars, nlVars, wdbVars>>

\* m[k] of a Go map whose missing keys read as zero; before it, a map that
\* reads as zero at every key
MapGetZero(m, k, zero) == zero

MapGet(m, k, zero) == IF k \in DOMAIN m THEN m[k] ELSE zero

MapPut(m, k, v) == [x \in DOMAIN m \cup {k} |-> IF x = k THEN v ELSE m[x]]

\* what one call of Init returned and left behind
Outcome(err, infos, index, ws) ==
    [err |-> err, queryInfos |-> infos, fingerprintIndex |-> index, weights |-> ws]

InitFail(msg, at) ==
    /\ initErr' = <<msg, at>>
    /\ cpc' = "err"
    /\ inits' = Append(inits, Outcome(<<msg, at>>, queryInfos, fingerprintIndex, weights))

\* Init, one turn of the loop (lines 75-103)
InitLoop ==
    /\ cpc = "scan"
    /\ cursor < Len(dataBuffer)
    /\ IF cursor + 4 > Len(dataBuffer)
       THEN /\ InitFail("not enough bytes for query length", cursor)
            /\ UNCHANGED <<cursor, queryInfos, fingerprintIndex, fingerprintCounts, totalQueries>>
       ELSE LET queryLength == Uint32(Slice(dataBuffer, cursor, cursor + 4))
                queryOffset == cursor + 4
                hashOffset  == queryOffset + queryLength
            IN IF hashOffset + 8 > Len(dataBuffer)
               THEN /\ InitFail("not enough bytes for query and hash", queryOffset - 4)
                    /\ cursor' = queryOffset
                    /\ UNCHANGED <<queryInfos, fingerprintIndex, fingerprintCounts, totalQueries>>
               ELSE LET fingerprintHash == Uint64(Slice(dataBuffer, hashOffset, hashOffset + 8))
                        queryIndex == Len(queryInfos)
                    IN /\ IF queryLength > 0
                          THEN /\ queryInfos' = Append(queryInfos,
                                       [offset |-> queryOffset, length |-> queryLength])
                               /\ fingerprintIndex' = MapPut(fingerprintIndex, fingerprintHash,
                                       Append(MapGet(fingerprintIndex, fingerprintHash, <<>>), queryIndex))
                               /\ fingerprintCounts' = MapPut(fingerprintCounts, fingerprintHash,
                                       MapGet(fingerprintCounts, fingerprintHash, 0) + 1)
                               /\ totalQueries' = totalQueries + 1
                          ELSE UNCHANGED <<queryInfos, fingerprintIndex, fingerprintCounts, totalQueries>>
                       /\ cursor' = hashOffset + 8
                       /\ UNCHANGED <<initErr, cpc, inits>>
    /\ UNCHANGED <<encoding, inQueryChan, sent, bufw, zhdr, zheld, file, fileOpen, wbytes,
                   dataBuffer, weights, queried>>
    /\ UNCHANGED <<lruVars, retryVars, ringVars, procVars, collVars, sinkVars, repVars, histVars, trimVars, sampVars, loadVars, qcVars, dbiVars, exVars, nlVars, wdbVars>>

\* the orders in which range may walk the keys of a Go map
Orders(S) == {s \in SeqsUpTo(S, Cardinality(S)) :
                  Len(s) = Cardinality(S) /\ \A x \in S : \E i \in 1..Len(s) : s[i] = x}

\* Init after the loop (lines 105-127); a weight count/totalQueries is kept as
\* the pair of its numerator and denominator
InitFinish ==
    /\ cpc = "scan"
    /\ cursor >= Len(dataBuffer)
    /\ IF totalQueries = 0
       THEN /\ InitFail("no valid queries found", cursor)
            /\ UNCHANGED weights
       ELSE /\ \E order \in Orders(DOMAIN fingerprintCounts) :
                   weights' = weights \o
                              [i \in 1..Len(order) |->
                                  [Hash |-> order[i],
                                   weight |-> <<fingerprintCounts[order[i]], totalQueries>>]]
            /\ cpc' = "ok"
            /\ initErr' = <<>>
            /\ inits' = Append(inits, Outcome(<<>>, queryInfos, fingerprintIndex, weights'))
    /\ UNCHANGED <<encoding, inQueryChan, sent, bufw, zhdr, zheld, file, fileOpen, wbytes,
                   dataBuffer, cursor, queryInfos, fingerprintIndex, fingerprintCounts,
                   totalQueries, queried>>
    /\ UNCHANGED <<lruVars, retryVars, ringVars, procVars, collVars, sinkVars, repVars, histVars, trimVars, sampVars, loadVars, qcVars, dbiVars, exVars, nlVars, wdbVars>>

\* Init is called once more (lines 55-56, 129): the call stores a new
\* sync.OnceValue in initOnce and runs it
InitAgain ==
    /\ cpc \in {"ok", "err"}
    /\ Len(inits) < MaxInitCalls
    /\ cpc' = "closed"
    /\ UNCHANGED <<encoding, inQueryChan, sent, bufw, zhdr, zheld, file, fileOpen, wbytes,
                   dataBuffer, cursor, queryInfos, fingerprintIndex, fingerprintCounts,
                   totalQueries, weights, initErr, inits, queried>>
    /\ UNCHANGED <<lruVars, retryVars, ringVars, procVars, collVars, sinkVars, repVars, histVars, trimVars, sampVars, loadVars, qcVars, dbiVars, exVars, nlVars, wdbVars>>

\* The weighted sampler of query_source.go 42-70, with whole numbers as
\* weights; rand.Float64() * totalWeight is k / Grid
RECURSIVE TotalWeight(_)
\* Add: qw.totalWeight += weight, for every weight added
TotalWeight(ws) == IF ws = <<>> THEN 0 ELSE Head(ws) + TotalWeight(Tail(ws))

AdvanceReset(sum, weight) == weight

\* cursor += queryWeight.weight
Advance(sum, weight) == sum + weight

RECURSIVE GetRandomWeightedLoop(_, _, _, _)
\* the range loop: the first entry whose running sum reaches r = k / Grid;
\* the last entry when none does
GetRandomWeightedLoop(ws, k, i, sum) ==
    IF i > Len(ws)
    THEN Len(ws)
    ELSE LET c == Advance(sum, ws[i])
         IN  IF c * Grid >= k THEN i ELSE GetRandomWeightedLoop(ws, k, i + 1, c)

\* GetRandomWeighted: the index of the entry returned, 0 for nil
GetRandomWeighted(ws, k) ==
    IF TotalWeight(ws) <= 0 \/ Len(ws) = 0
    THEN 0
    ELSE GetRandomWeightedLoop(ws, k, 1, 0)

\* the weights in units of 1 / totalQueries: Init adds count / totalQueries
\* per fingerprint (lines 109-115), every count over the same totalQueries
WeightUnits(ws) == [i \in 1..Len(ws) |-> ws[i].weight[1]]

QueryErr(msg) == [err |-> msg, Query |-> <<>>]

\* GetRandomWeightedQuery (lines 142-167) for the draw k of rand.Float64 and
\* the draw j of rand.Intn
GetRandomWeightedQuery(k, j) ==
    LET chosen == GetRandomWeighted(WeightUnits(weights), k)
    IN IF chosen = 0
       THEN QueryErr("failed to get random weighted fingerprint")
       ELSE LET fingerprintHash == weights[chosen].Hash
                queryIndices == MapGet(fingerprintIndex, fingerprintHash, <<>>)
            IN IF Len(queryIndices) = 0
               THEN QueryErr("no query indices found for fingerprint hash")
               ELSE LET randomIndex == queryIndices[(j % Len(queryIndices)) + 1]
                    IN IF randomIndex + 1 \notin DOMAIN queryInfos
                       THEN QueryErr("index out of range")
                       ELSE LET info == queryInfos[randomIndex + 1]
                            IN IF info.offset + info.length > Len(dataBuffer) \/ info.length <= 0
                               THEN QueryErr("invalid query info")
                               ELSE [err |-> "nil",
                                     Query |-> Slice(dataBuffer, info.offset,
                                                     info.offset + info.length)]

\* one call of GetRandomWeightedQuery after Init returned nil
GetRandomWeightedQueryCall ==
    /\ cpc = "ok"
    /\ \E k \in 0..(TotalWeight(WeightUnits(weights)) * Grid - 1), j \in 0..(MaxIntn - 1) :
           queried' = <<GetRandomWeightedQuery(k, j)>>
    /\ UNCHANGED <<encoding, inQueryChan, sent, bufw, zhdr, zheld, file, fileOpen, wbytes, cpc,
                   dataBuffer, cursor, queryInfos, fingerprintIndex, fingerprintCounts,
                   totalQueries, weights, initErr, inits>>
    /\ UNCHANGED <<lruVars, retryVars, ringVars, procVars, collVars, sinkVars, repVars, histVars, trimVars, sampVars, loadVars, qcVars, dbiVars, exVars, nlVars, wdbVars>>

CodecNext ==
    \/ InitAgain
    \/ StartOutputLoop
    \/ StartOutputReturn
    \/ Destroy
    \/ InitReadAll
    \/ InitLoop
    \/ InitFinish
    \/ GetRandomWeightedQueryCall


(* Properties of the blob codec *)

\* the (raw, fingerprint_hash) pairs of the records given to the sink
RECURSIVE Pairs(_)
Pairs(ptrs) ==
    IF ptrs = <<>> THEN <<>>
    ELSE IF Head(ptrs) = <<>> THEN Pairs(Tail(ptrs))
    ELSE <<(<<Head(ptrs)[1].Raw, Head(ptrs)[1].FingerprintHash>>)>> \o Pairs(Tail(ptrs))

\* the hash under which the reader indexed query number i (counted from 0)
HashOfIndex(i) ==
    CHOOSE h \in DOMAIN fingerprintIndex :
        \E j \in 1..Len(fingerprintIndex[h]) : fingerprintIndex[h][j] = i

\* the (raw, fingerprint_hash) pairs the reader indexed, in order
Yielded ==
    [i \in 1..Len(queryInfos) |->
        <<Slice(dataBuffer, queryInfos[i].offset, queryInfos[i].offset + queryInfos[i].length),
          HashOfIndex(i - 1)>>]

\* where the cursor stands after the first n of the pairs ps
RECURSIVE CursorAfter(_, _)
CursorAfter(ps, n) ==
    IF n = 0 THEN 0 ELSE CursorAfter(ps, n - 1) + 4 + Len(ps[n][1]) + 8

ScanOver == cpc \in {"ok", "err"} /\ Len(inits) = 1

\* C9: for every sequence of records (raw, fingerprint_hash), records with an
\* empty raw included, writing them with the blob sink and then scanning the
\* blob with the replay reader yields the same pairs in the same order; the
\* cursor advances by 4 + len(raw) + 8 per record and ends at the number of
\* bytes written.
CodecRoundTrip ==
    ScanOver =>
        /\ Yielded = Pairs(sent)
        /\ \A i \in 1..Len(queryInfos) :
               i <= Len(Pairs(sent)) =>
                   queryInfos[i].offset = CursorAfter(Pairs(sent), i - 1) + 4
        /\ cursor = CursorAfter(Pairs(sent), Len(Pairs(sent)))
        /\ cursor = wbytes

----------------------------------------------------------------------------
(* Init of the reader on a blob that may be cut short *)

RECURSIVE Concat(_)
Concat(ptrs) ==
    IF ptrs = <<>> THEN <<>> ELSE Record(Head(ptrs)[1]) \o Concat(Tail(ptrs))

\* the file holds the records `sent`, every one of them written, and is cut
\* anywhere
ScanNew ==
    /\ encoding = "plain"
    /\ inQueryChan = <<>>
    /\ sent \in SeqsUpTo({<<q>> : q \in Queries}, MaxRecords)
    /\ bufw = <<>>
    /\ zhdr = FALSE
    /\ zheld = <<>>
    /\ \E n \in 0..Len(Concat(sent)) : file = SubSeq(Concat(sent), 1, n)
    /\ fileOpen = FALSE
    /\ wbytes = 0
    /\ cpc = "closed"
    /\ dataBuffer = <<>>
    /\ cursor = 0
    /\ queryInfos = <<>>
    /\ fingerprintIndex = <<>>
    /\ fingerprintCounts = <<>>
    /\ totalQueries = 0
    /\ weights = <<>>
    /\ initErr = <<>>
    /\ inits = <<>>
    /\ queried = <<>>

ScanNext ==
    \/ InitReadAll
    \/ InitLoop
    \/ InitFinish
    \/ GetRandomWeightedQueryCall

\* the positions at which a record of the file starts or the last one ends
Boundaries == {CursorAfter(Pairs(sent), n) : n \in 0..Len(sent)}

\* the file is a concatenation of complete records
Exact == Len(file) \in Boundaries

\* where the record that the file ends in starts
StartOfIncomplete ==
    CHOOSE c \in Boundaries : c <= Len(file) /\ \A d \in Boundaries : d <= Len(file) => d <= c

\* a complete record of the file has a raw that is not empty
Usable ==
    \E i \in 1..Len(sent) :
        CursorAfter(Pairs(sent), i) <= Len(file) /\ Len(sent[i][1].Raw) > 0

\* Init never looked beyond the end of the blob
ReadsInRange ==
    /\ cursor <= Len(dataBuffer)
    /\ \A i \in 1..Len(queryInfos) :
           queryInfos[i].offset + queryInfos[i].length + 8 <= Len(dataBuffer)

\* C28, as stated: Init fails exactly when the blob is not a concatenation
\* of complete records; the position it reports is the start of the
\* incomplete record; it reads no byte beyond the blob.
InitFailsIffCut ==
    /\ ReadsInRange
    /\ cpc \in {"ok", "err"} =>
           /\ cpc = "err" <=> ~Exact
           /\ cpc = "err" => initErr[2] = StartOfIncomplete

\* C28, amended: Init fails exactly when the blob is not a concatenation of
\* complete records or holds no record with a raw that is not empty; for a
\* blob that is cut the error is one of the two `incomplete data` errors and
\* reports the start of the incomplete record; for a concatenation without
\* a usable record it is `no valid queries found`; no byte beyond the blob
\* is read.
InitFailsIffCutOrEmpty ==
    /\ ReadsInRange
    /\ cpc \in {"ok", "err"} =>
           /\ cpc = "err" <=> (~Exact \/ ~Usable)
           /\ ~Exact =>
                  /\ initErr[1] \in {"not enough bytes for query length",
                                     "not enough bytes for query and hash"}
                  /\ initErr[2] = StartOfIncomplete
           /\ (Exact /\ ~Usable) => initErr[1] = "no valid queries found"

\* a blob cut inside the hash of its second record, after a first record
\* with a raw longer than 255 bytes
InitFailsIffCutWitness ==
    /\ cpc = "err"
    /\ Len(sent) = 2
    /\ Len(sent[1][1].Raw) = LongLen
    /\ Len(file) = CursorAfter(Pairs(sent), 2) - 3
    /\ initErr = <<"not enough bytes for query and hash", CursorAfter(Pairs(sent), 1)>>

\* cut inside the length prefix, and inside the raw bytes
InitFailsInPrefixWitness ==
    /\ cpc = "err"
    /\ initErr[1] = "not enough bytes for query length"
    /\ initErr[2] > 0

InitFailsInRawWitness ==
    /\ cpc = "err"
    /\ Len(sent) = 1
    /\ Len(file) = 4 + 100
    /\ initErr = <<"not enough bytes for query and hash", 0>>

----------------------------------------------------------------------------
\* C15: calling Init on a replay source more than once runs the
\* initialization once: every later call returns the first call's outcome and
\* leaves query_infos, fingerprint_index and the fingerprint weights as the
\* first call left them.
InitExactlyOnce ==
    \A i \in 1..Len(inits) : inits[i] = inits[1]

(* Processor (query-collector): part_003, with the helpers of part_007      *)

Workers == 1..NumWorkers

isWhitespaceNoCR(b) == b \in {32, 9, 10}

\* isWhitespace (part_007 lines 9-18)
isWhitespace(b) == b \in {32, 9, 10, 13}

\* bytesContainsWeirdChars (part_007 lines 20-27)
bytesContainsWeirdChars(b) == \E i \in 1..Len(b) : b[i] < 32 \/ b[i] > 126

\* the loop of bytesTrimFuncInPlace (part_007 lines 37-52); b is the buffer,
\* written in place, i and bi count from 0
RECURSIVE TrimLoop(_, _, _, _)
TrimLoop(b, i, bi, trailingTrimAt) ==
    IF i < Len(b)
    THEN IF bi = 0 /\ isWhitespace(b[i + 1])
         THEN TrimLoop(b, i + 1, bi, trailingTrimAt)
         ELSE LET b2 == [b EXCEPT ![bi + 1] = b[i + 1]]
              IN TrimLoop(b2, i + 1, bi + 1,
                          IF isWhitespace(b2[bi + 1])
                          THEN (IF trailingTrimAt = -1 THEN bi ELSE trailingTrimAt)
                          ELSE -1)
    ELSE IF trailingTrimAt # -1 THEN Slice(b, 0, trailingTrimAt) ELSE Slice(b, 0, bi)

\* bytesTrimSpace (part_007 lines 29-31)
bytesTrimSpace(b) == TrimLoop(b, 0, 0, -1)

ToLowerByte(c) == IF c >= 65 /\ c <= 90 THEN c + 32 ELSE c

\* bytes.ToLowerInPlace: every byte of the slice
ToLowerInPlace(q) == [i \in 1..Len(q) |-> ToLowerByte(q[i])]

HasPrefix(s, p) == Len(s) >= Len(p) /\ SubSeq(s, 1, Len(p)) = p

MinInt(a, b) == IF a < b THEN a ELSE b

\* isValidQuery (part_007 lines 64-80): the verdict, and the buffer it leaves
isValidQuery(q) ==
    /\ Len(q) # 0
    /\ ~bytesContainsWeirdChars(Slice(q, 0, MinInt(Len(q), 25)))
    /\ ~HasPrefix(ToLowerInPlace(q), <<117, 115, 101, 32>>)
    /\ ~HasPrefix(ToLowerInPlace(q), <<115, 101, 116, 32>>)

isValidQueryBuf(q) ==
    IF Len(q) = 0 \/ bytesContainsWeirdChars(Slice(q, 0, MinInt(Len(q), 25)))
    THEN q
    ELSE ToLowerInPlace(q)

\* invalidFingerprintPrefixes (part_007 lines 82-94), as bytes
\* "select ticket_status, chat_log_id_start, chat_log_..."
InvalidPrefix1 ==
    <<115, 101, 108, 101, 99, 116, 32, 116, 105, 99, 107, 101, 116, 95,
      115, 116, 97, 116, 117, 115, 44, 32, 99, 104, 97, 116, 95, 108, 111,
      103, 95, 105, 100, 95, 115, 116, 97, 114, 116, 44, 32, 99, 104, 97,
      116, 95, 108, 111, 103, 95, 105, 100, 95, 101, 110, 100, 32, 102,
      114, 111, 109, 32, 98, 111, 116, 105, 107, 97, 95, 104, 101, 108,
      112, 100, 101, 115, 107, 95, 116, 105, 99, 107, 101, 116, 115, 32,
      119, 104, 101, 114, 101, 32, 98, 111, 116, 95, 105, 100, 32, 61, 32,
      63, 32, 97, 110, 100, 32, 116, 105, 99, 107, 101, 116, 95, 115, 116,
      97, 116, 117, 115, 32, 33, 61, 32, 63, 32, 97, 110, 100, 32, 116,
      105, 99, 107, 101, 116, 95, 115, 116, 97, 116, 117, 115, 32, 33, 61,
      32, 63, 32, 97, 110, 100, 32, 116, 105, 99, 107, 101, 116, 95, 103,
      114, 111, 117, 112, 32, 61, 32, 63, 32, 115, 101, 108, 101, 99, 116,
      32, 116, 105, 99, 107, 101, 116, 95, 115, 116, 97, 116, 117, 115, 44,
      32, 99, 104, 97, 116, 95, 108, 111, 103, 95, 105, 100, 95, 115, 116,
      97, 114, 116, 44, 32, 99, 104, 97, 116, 95, 108, 111, 103, 95, 105,
      100, 95, 101, 110, 100, 32, 102, 114, 111, 109, 32, 98, 111, 116,
      105, 107, 97, 95, 104, 101, 108, 112, 100, 101, 115, 107, 95, 116,
      105, 99, 107, 101, 116, 115, 32, 119, 104, 101, 114, 101, 32, 98,
      111, 116, 95, 105, 100, 32, 61, 32, 63, 32, 97, 110, 100, 32, 116,
      105, 99, 107, 101, 116, 95, 115, 116, 97, 116, 117, 115, 32, 33, 61,
      32, 63, 32, 97, 110, 100, 32, 116, 105, 99, 107, 101, 116, 95, 115,
      116, 97, 116, 117, 115, 32, 33, 61, 32, 63, 32, 97, 110, 100, 32,
      117, 115, 101, 114, 95, 105, 100, 32, 61, 32, 63, 32, 111, 114, 100,
      101, 114, 32, 98, 121, 32, 116, 105, 99, 107, 101, 116, 95, 105, 100,
      120, 32, 100, 101, 115, 99, 32, 108, 105, 109, 105, 116, 32, 63>>

\* "select ticket_status, ticket_idx, creation_date, c..."
InvalidPrefix2 ==
    <<115, 101, 108, 101, 99, 116, 32, 116, 105, 99, 107, 101, 116, 95,
      115, 116, 97, 116, 117, 115, 44, 32, 116, 105, 99, 107, 101, 116, 95,
      105, 100, 120, 44, 32, 99, 114, 101, 97, 116, 105, 111, 110, 95, 100,
      97, 116, 101, 44, 32, 99, 104, 97, 116, 95, 108, 111, 103, 95, 105,
      100, 95, 115, 116, 97, 114, 116, 44, 32, 99, 104, 97, 116, 95, 108,
      111, 103, 95, 105, 100, 120, 95, 115, 116, 97, 114, 116, 44, 32, 99,
      104, 97, 116, 95, 108, 111, 103, 95, 105, 100, 95, 101, 110, 100, 32,
      102, 114, 111, 109, 32, 98, 111, 116, 105, 107, 97, 95, 104, 101,
      108, 112, 100, 101, 115, 107, 95, 116, 105, 99, 107, 101, 116, 115,
      32, 119, 104, 101, 114, 101, 32, 98, 111, 116, 95, 105, 100, 32, 61,
      32, 63, 32, 97, 110, 100, 32, 116, 105, 99, 107, 101, 116, 95, 115,
      116, 97, 116, 117, 115, 32, 33, 61, 32, 63, 32, 97, 110, 100, 32,
      116, 105, 99, 107, 101, 116, 95, 115, 116, 97, 116, 117, 115, 32, 33,
      61, 32, 63, 32, 97, 110, 100, 32, 116, 105, 99, 107, 101, 116, 95,
      103, 114, 111, 117, 112, 32, 61, 32, 63, 32, 115, 101, 108, 101, 99,
      116, 32, 116, 105, 99, 107, 101, 116, 95, 115, 116, 97, 116, 117,
      115, 44, 32, 116, 105, 99, 107, 101, 116, 95, 105, 100, 120, 44, 32,
      99, 114, 101, 97, 116, 105, 111, 110, 95, 100, 97, 116, 101, 44, 32,
      99, 104, 97, 116, 95, 108, 111, 103, 95, 105, 100, 95, 115, 116, 97,
      114, 116, 44, 32, 99, 104, 97, 116, 95, 108, 111, 103, 95, 105, 100,
      120, 95, 115, 116, 97, 114, 116, 44, 32, 99, 104, 97, 116, 95, 108,
      111, 103, 95, 105, 100, 95, 101, 110, 100, 32, 102, 114, 111, 109,
      32, 98, 111, 116, 105, 107, 97, 95, 104, 101, 108, 112, 100, 101,
      115, 107, 95, 116, 105, 99, 107, 101, 116, 115, 32, 119, 104, 101,
      114, 101, 32, 98, 111, 116, 95, 105, 100, 32, 61, 32, 63, 32, 97,
      110, 100, 32, 116, 105, 99, 107, 101, 116, 95, 115, 116, 97, 116,
      117, 115, 32, 33, 61, 32, 63, 32, 97, 110, 100, 32, 116, 105, 99,
      107, 101, 116, 95, 115, 116, 97, 116, 117, 115, 32, 33, 61, 32, 63,
      32, 97, 110, 100, 32, 117, 115, 101, 114, 95, 105, 100, 32, 61, 32,
      63, 32, 111, 114, 100, 101, 114, 32, 98, 121, 32, 116, 105, 99, 107,
      101, 116, 95, 105, 100, 120, 32, 100, 101, 115, 99, 32, 108, 105,
      109, 105, 116, 32, 63>>

\* "select * from rule_state"
InvalidPrefix3 ==
    <<115, 101, 108, 101, 99, 116, 32, 42, 32, 102, 114, 111, 109, 32, 114,
      117, 108, 101, 95, 115, 116, 97, 116, 101>>

\* "select * from rule_action"
InvalidPrefix4 ==
    <<115, 101, 108, 101, 99, 116, 32, 42, 32, 102, 114, 111, 109, 32, 114,
      117, 108, 101, 95, 97, 99, 116, 105, 111, 110>>

\* "select * from botika_push_messages"
InvalidPrefix5 ==
    <<115, 101, 108, 101, 99, 116, 32, 42, 32, 102, 114, 111, 109, 32, 98,
      111, 116, 105, 107, 97, 95, 112, 117, 115, 104, 95, 109, 101, 115,
      115, 97, 103, 101, 115>>

\* "update botika_push_messages"
InvalidPrefix6 ==
    <<117, 112, 100, 97, 116, 101, 32, 98, 111, 116, 105, 107, 97, 95, 112,
      117, 115, 104, 95, 109, 101, 115, 115, 97, 103, 101, 115>>

\* "select * from botika_tts_history"
InvalidPrefix7 ==
    <<115, 101, 108, 101, 99, 116, 32, 42, 32, 102, 114, 111, 109, 32, 98,
      111, 116, 105, 107, 97, 95, 116, 116, 115, 95, 104, 105, 115, 116,
      111, 114, 121>>

\* "update botika_tts_history"
InvalidPrefix8 ==
    <<117, 112, 100, 97, 116, 101, 32, 98, 111, 116, 105, 107, 97, 95, 116,
      116, 115, 95, 104, 105, 115, 116, 111, 114, 121>>

\* "select count(*) from botika_notification_gallery"
InvalidPrefix9 ==
    <<115, 101, 108, 101, 99, 116, 32, 99, 111, 117, 110, 116, 40, 42, 41,
      32, 102, 114, 111, 109, 32, 98, 111, 116, 105, 107, 97, 95, 110, 111,
      116, 105, 102, 105, 99, 97, 116, 105, 111, 110, 95, 103, 97, 108,
      108, 101, 114, 121>>

\* "update botika_voicebotstream_limit"
InvalidPrefix10 ==
    <<117, 112, 100, 97, 116, 101, 32, 98, 111, 116, 105, 107, 97, 95, 118,
      111, 105, 99, 101, 98, 111, 116, 115, 116, 114, 101, 97, 109, 95,
      108, 105, 109, 105, 116>>

invalidFingerprintPrefixes ==
    {InvalidPrefix1, InvalidPrefix2, InvalidPrefix3, InvalidPrefix4, InvalidPrefix5,
     InvalidPrefix6, InvalidPrefix7, InvalidPrefix8, InvalidPrefix9, InvalidPrefix10}


\* isValidFingerprint (part_007 lines 96-103)
isValidFingerprint(q) == \A invalid \in invalidFingerprintPrefixes : ~HasPrefix(q, invalid)

\* doHash (part_003 lines 285-289).  xxhash64 is stood for by a polynomial
\* hash into 0..HashMod-1: a function of the bytes that collides and that
\* takes the value 0
RECURSIVE doHashFrom(_, _, _)
doHashFrom(b, i, h) ==
    IF i > Len(b) THEN h ELSE doHashFrom(b, i + 1, (h * 31 + b[i]) % HashMod)

doHash(b) == doHashFrom(b, 1, Len(b) % HashMod)

\* normalizer.Normalize (imported library), by its contract: whitespace runs
\* become one space, letters outside literals are lowered (KeywordCase:
\* CaseLower), a quoted string or a number is a literal, kept as it is or
\* replaced by ? (RemoveLiterals); an unterminated string is an error
NormErr == <<-1>>

isDigit(c) == c >= 48 /\ c <= 57

Emit(out, sp, tok) ==
    IF out = <<>> THEN tok ELSE IF sp THEN out \o <<32>> \o tok ELSE out \o tok

\* index of the first byte from i on that is no digit, Len+1 if none
RECURSIVE DigitsEnd(_, _)
DigitsEnd(src, i) ==
    IF i <= Len(src) /\ isDigit(src[i]) THEN DigitsEnd(src, i + 1) ELSE i

RECURSIVE NormalizeFrom(_, _, _, _, _)
NormalizeFrom(removeLiterals, src, i, out, sp) ==
    IF i > Len(src) THEN out
    ELSE IF isWhitespace(src[i])
    THEN NormalizeFrom(removeLiterals, src, i + 1, out, TRUE)
    ELSE IF src[i] = 39
    THEN LET closing == {j \in (i + 1)..Len(src) : src[j] = 39}
         IN IF closing = {} THEN NormErr
            ELSE LET j == CHOOSE k \in closing : \A l \in closing : k <= l
                 IN NormalizeFrom(removeLiterals, src, j + 1,
                        Emit(out, sp, IF removeLiterals THEN <<63>> ELSE SubSeq(src, i, j)),
                        FALSE)
    ELSE IF isDigit(src[i])
    THEN LET j == DigitsEnd(src, i)
         IN NormalizeFrom(removeLiterals, src, j,
                Emit(out, sp, IF removeLiterals THEN <<63>> ELSE SubSeq(src, i, j - 1)),
                FALSE)
    ELSE NormalizeFrom(removeLiterals, src, i + 1, Emit(out, sp, <<ToLowerByte(src[i])>>), FALSE)

Normalize(removeLiterals, src) == NormalizeFrom(removeLiterals, src, 1, <<>>, FALSE)

\* the loop of normalizeAndPutToCache on a miss (part_003 lines 147-159):
\* ErrBufferTooSmall doubles the buffer; the result and the capacity left
RECURSIVE NormalizeLoop(_, _, _)
NormalizeLoop(removeLiterals, q, cap) ==
    LET n == Normalize(removeLiterals, q)
    IN IF n # NormErr /\ Len(n) > cap
       THEN NormalizeLoop(removeLiterals, q, cap * 2)
       ELSE [out |-> n, cap |-> cap]

RawSelectA == <<83, 69, 76, 69, 67, 84, 32, 39, 65, 39>>    \* "SELECT 'A'"
RawSelectAPadded == <<32, 115, 101, 108, 101, 99, 116, 32, 39, 97, 39, 10>>    \* " select 'a'\n"
RawSelectNum == <<83, 69, 76, 69, 67, 84, 32, 32, 49>>    \* 'SELECT  1'
RawUse == <<85, 83, 69, 32, 100, 98>>    \* 'USE db'
RawWeird == <<115, 1>>    \* 's\x01'
RawOpenQuote == <<83, 69, 76, 69, 67, 84, 32, 39, 97>>    \* "SELECT 'a"
RawRuleState == <<83, 69, 76, 69, 67, 84, 32, 42, 32, 70, 82, 79, 77, 32, 114, 117, 108,
      101, 95, 115, 116, 97, 116, 101>>    \* 'SELECT * FROM rule_state'

\* what the extractors put on the channel (part_000 lines 139-142, part_005
\* lines 233-236): Raw set, everything else zero.  Orig keeps the bytes the
\* extractor gave, for the properties.
ExtractorRaws ==
    {<<>>, RawSelectA, RawSelectAPadded, RawSelectNum, RawUse, RawWeird,
     RawOpenQuote, RawRuleState}

Extracted(raw) ==
    [Raw |-> raw, Fingerprint |-> <<>>, Hash |-> 0, FingerprintHash |-> 0,
     CompletelyProcessed |-> FALSE, Timestamp |-> 1, Offset |-> 0, Length |-> 0,
     Orig |-> raw]

\* a record that was processed before (query.Query with CompletelyProcessed
\* set, as UnmarshalBinary or an earlier Processor leaves it)
RawProcessedA   == <<115, 101, 108, 101, 99, 116, 32, 39, 65, 39>>   \* "select 'A'"
RawProcessedNum == <<115, 101, 108, 101, 99, 116, 32, 49>>           \* "select 1"
ProcessedRaws == {RawProcessedA, RawProcessedNum}

AlreadyProcessed(raw) ==
    [Raw |-> raw, Fingerprint |-> Normalize(TRUE, raw), Hash |-> doHash(raw),
     FingerprintHash |-> doHash(Normalize(TRUE, raw)),
     CompletelyProcessed |-> TRUE, Timestamp |-> 1, Offset |-> 0, Length |-> Len(raw),
     Orig |-> raw]

InputQueries ==
    {Extracted(r) : r \in ExtractorRaws} \cup {AlreadyProcessed(r) : r \in ProcessedRaws}

ProcOff ==
    /\ procIn = <<>>
    /\ extractedQueriesChan = <<>>
    /\ processedQueriesChan = <<>>
    /\ pctxDone = FALSE
    /\ wq = <<>>
    /\ wpc = <<>>
    /\ bufcap = <<>>
    /\ rawQueriesCache = <<>>
    /\ rawQueriesHashCache = <<>>
    /\ fingerprintsCache = <<>>
    /\ fingerprintsHashCache = <<>>
    /\ errsChan = <<>>
    /\ progress = 0

\* NewProcessor (part_003 lines 68-118) and StartProcessingQueries (lines
\* 248-282): empty caches, MaxConcurrency workers; the extractor has put its
\* records on the channel and closed it
NewProcessor ==
    /\ extractedQueriesChan \in SeqsUpTo(InputQueries, MaxIn)
    /\ procIn = extractedQueriesChan
    /\ processedQueriesChan = <<>>
    /\ pctxDone = FALSE
    /\ wq = [w \in Workers |-> <<>>]
    /\ wpc = [w \in Workers |-> "recv"]
    /\ bufcap = [w \in Workers |-> 0]
    /\ rawQueriesCache = <<>>
    /\ rawQueriesHashCache = <<>>
    /\ fingerprintsCache = <<>>
    /\ fingerprintsHashCache = <<>>
    /\ errsChan = <<>>
    /\ progress = 0

\* the worker drops its record and goes back to the head of the loop
ProcContinue(w) ==
    /\ wq' = [wq EXCEPT ![w] = <<>>]
    /\ wpc' = [wpc EXCEPT ![w] = "recv"]

\* the worker keeps q and goes on at position p
ProcGoOn(w, q, p) ==
    /\ wq' = [wq EXCEPT ![w] = <<q>>]
    /\ wpc' = [wpc EXCEPT ![w] = p]

\* processorGoroutine, from the receive to rawQueriesCache.Get (lines 172-199
\* and 144)
ProcReceive(w) ==
    /\ wpc[w] = "recv"
    /\ extractedQueriesChan # <<>>
    /\ extractedQueriesChan' = Tail(extractedQueriesChan)
    /\ LET q0 == Head(extractedQueriesChan)
           trimmed == bytesTrimSpace(q0.Raw)
           q == [q0 EXCEPT !.Raw = isValidQueryBuf(trimmed)]
       IN IF pctxDone
          THEN /\ wq' = [wq EXCEPT ![w] = <<>>]
               /\ wpc' = [wpc EXCEPT ![w] = "returned"]
               /\ UNCHANGED <<progress, bufcap>>
          ELSE /\ progress' = progress + 1
               /\ IF ~isValidQuery(trimmed) \/ q.CompletelyProcessed
                  THEN /\ ProcContinue(w)
                       /\ UNCHANGED bufcap
                  ELSE /\ bufcap' = [bufcap EXCEPT ![w] =
                              IF Len(q.Raw) > bufcap[w] THEN Len(q.Raw) + BufSlack ELSE bufcap[w]]
                       /\ IF q.Raw \in DOMAIN rawQueriesCache
                          THEN ProcGoOn(w, [q EXCEPT !.Raw = rawQueriesCache[q.Raw]], "hash")
                          ELSE ProcGoOn(w, q, "normalizeRaw")
    /\ UNCHANGED <<procIn, processedQueriesChan, pctxDone, rawQueriesCache,
                   rawQueriesHashCache, fingerprintsCache, fingerprintsHashCache, errsChan>>
    /\ UNCHANGED <<lruVars, retryVars, ringVars, codecVars, collVars, sinkVars, repVars, histVars, trimVars, sampVars, loadVars, qcVars, dbiVars, exVars, nlVars, wdbVars>>

\* normalizeAndPutToCache on a miss of rawQueriesCache (lines 146-161), and
\* lines 203-206
ProcNormalizeRaw(w) ==
    /\ wpc[w] = "normalizeRaw"
    /\ LET q == wq[w][1]
           r == NormalizeLoop(FALSE, q.Raw, bufcap[w])
       IN /\ bufcap' = [bufcap EXCEPT ![w] = r.cap]
          /\ IF r.out = NormErr
             THEN /\ errsChan' = Append(errsChan, q.Raw)
                  /\ ProcContinue(w)
                  /\ UNCHANGED rawQueriesCache
             ELSE /\ rawQueriesCache' = MapPut(rawQueriesCache, q.Raw, r.out)
                  /\ ProcGoOn(w, [q EXCEPT !.Raw = r.out], "hash")
                  /\ UNCHANGED errsChan
    /\ UNCHANGED <<procIn, extractedQueriesChan, processedQueriesChan, pctxDone, rawQueriesHashCache,
                   fingerprintsCache, fingerprintsHashCache, progress>>
    /\ UNCHANGED <<lruVars, retryVars, ringVars, codecVars, collVars, sinkVars, repVars, histVars, trimVars, sampVars, loadVars, qcVars, dbiVars, exVars, nlVars, wdbVars>>

\* lines 207-211: rawQueriesHashCache.Get
ProcHashGet(w) ==
    /\ wpc[w] = "hash"
    /\ LET q == wq[w][1]
       IN IF q.Hash # 0
          THEN ProcGoOn(w, q, "fingerprint")
          ELSE IF q.Raw \in DOMAIN rawQueriesHashCache
          THEN ProcGoOn(w, [q EXCEPT !.Hash = rawQueriesHashCache[q.Raw]], "fingerprint")
          ELSE ProcGoOn(w, q, "hashSet")
    /\ UNCHANGED <<procIn, extractedQueriesChan, processedQueriesChan, pctxDone, bufcap,
                   rawQueriesCache, rawQueriesHashCache, fingerprintsCache,
                   fingerprintsHashCache, errsChan, progress>>
    /\ UNCHANGED <<lruVars, retryVars, ringVars, codecVars, collVars, sinkVars, repVars, histVars, trimVars, sampVars, loadVars, qcVars, dbiVars, exVars, nlVars, wdbVars>>

\* line 212: rawQueriesHashCache.Set
ProcHashSet(w) ==
    /\ wpc[w] = "hashSet"
    /\ LET q == wq[w][1]
           h == doHash(q.Raw)
       IN /\ rawQueriesHashCache' = MapPut(rawQueriesHashCache, q.Raw, h)
          /\ ProcGoOn(w, [q EXCEPT !.Hash = h], "fingerprint")
    /\ UNCHANGED <<procIn, extractedQueriesChan, processedQueriesChan, pctxDone, bufcap,
                   rawQueriesCache, fingerprintsCache, fingerprintsHashCache, errsChan,
                   progress>>
    /\ UNCHANGED <<lruVars, retryVars, ringVars, codecVars, collVars, sinkVars, repVars, histVars, trimVars, sampVars, loadVars, qcVars, dbiVars, exVars, nlVars, wdbVars>>

\* lines 216-217 and 144: fingerprintsCache.Get
ProcFingerprintGet(w) ==
    /\ wpc[w] = "fingerprint"
    /\ LET q == wq[w][1]
       IN IF Len(q.Fingerprint) # 0
          THEN ProcGoOn(w, q, "fingerprintHash")
          ELSE IF q.Raw \in DOMAIN fingerprintsCache
          THEN ProcGoOn(w, [q EXCEPT !.Fingerprint = fingerprintsCache[q.Raw]], "fingerprintHash")
          ELSE ProcGoOn(w, q, "normalizeFingerprint")
    /\ UNCHANGED <<procIn, extractedQueriesChan, processedQueriesChan, pctxDone, bufcap,
                   rawQueriesCache, rawQueriesHashCache, fingerprintsCache,
                   fingerprintsHashCache, errsChan, progress>>
    /\ UNCHANGED <<lruVars, retryVars, ringVars, codecVars, collVars, sinkVars, repVars, histVars, trimVars, sampVars, loadVars, qcVars, dbiVars, exVars, nlVars, wdbVars>>

\* normalizeAndPutToCache on a miss of fingerprintsCache (lines 146-161), and
\* lines 223-226
ProcNormalizeFingerprint(w) ==
    /\ wpc[w] = "normalizeFingerprint"
    /\ LET q == wq[w][1]
           r == NormalizeLoop(TRUE, q.Raw, bufcap[w])
       IN /\ bufcap' = [bufcap EXCEPT ![w] = r.cap]
          /\ IF r.out = NormErr
             THEN /\ errsChan' = Append(errsChan, q.Raw)
                  /\ ProcContinue(w)
                  /\ UNCHANGED fingerprintsCache
             ELSE /\ fingerprintsCache' = MapPut(fingerprintsCache, q.Raw, r.out)
                  /\ ProcGoOn(w, [q EXCEPT !.Fingerprint = r.out], "fingerprintHash")
                  /\ UNCHANGED errsChan
    /\ UNCHANGED <<procIn, extractedQueriesChan, processedQueriesChan, pctxDone, rawQueriesCache,
                   rawQueriesHashCache, fingerprintsHashCache, progress>>
    /\ UNCHANGED <<lruVars, retryVars, ringVars, codecVars, collVars, sinkVars, repVars, histVars, trimVars, sampVars, loadVars, qcVars, dbiVars, exVars, nlVars, wdbVars>>

\* lines 228-231: fingerprintsHashCache.Get
ProcFingerprintHashGet(w) ==
    /\ wpc[w] = "fingerprintHash"
    /\ LET q == wq[w][1]
       IN IF ~(q.FingerprintHash = 0 /\ Len(q.Fingerprint) > 0)
          THEN ProcGoOn(w, q, "send")
          ELSE IF q.Fingerprint \in DOMAIN fingerprintsHashCache
          THEN ProcGoOn(w, [q EXCEPT !.FingerprintHash = fingerprintsHashCache[q.Fingerprint]],
                        "send")
          ELSE ProcGoOn(w, q, "fingerprintHashSet")
    /\ UNCHANGED <<procIn, extractedQueriesChan, processedQueriesChan, pctxDone, bufcap,
                   rawQueriesCache, rawQueriesHashCache, fingerprintsCache,
                   fingerprintsHashCache, errsChan, progress>>
    /\ UNCHANGED <<lruVars, retryVars, ringVars, codecVars, collVars, sinkVars, repVars, histVars, trimVars, sampVars, loadVars, qcVars, dbiVars, exVars, nlVars, wdbVars>>

\* line 233: fingerprintsHashCache.Set
ProcFingerprintHashSet(w) ==
    /\ wpc[w] = "fingerprintHashSet"
    /\ LET q == wq[w][1]
           h == doHash(q.Fingerprint)
       IN /\ fingerprintsHashCache' = MapPut(fingerprintsHashCache, q.Fingerprint, h)
          /\ ProcGoOn(w, [q EXCEPT !.FingerprintHash = h], "send")
    /\ UNCHANGED <<procIn, extractedQueriesChan, processedQueriesChan, pctxDone, bufcap,
                   rawQueriesCache, rawQueriesHashCache, fingerprintsCache, errsChan,
                   progress>>
    /\ UNCHANGED <<lruVars, retryVars, ringVars, codecVars, collVars, sinkVars, repVars, histVars, trimVars, sampVars, loadVars, qcVars, dbiVars, exVars, nlVars, wdbVars>>

\* lines 237-243: the fingerprint filter, and the send
ProcSend(w) ==
    /\ wpc[w] = "send"
    /\ LET q == wq[w][1]
       IN IF ~isValidFingerprint(q.Fingerprint)
          THEN UNCHANGED processedQueriesChan
          ELSE processedQueriesChan' =
                   Append(processedQueriesChan, [q EXCEPT !.CompletelyProcessed = TRUE])
    /\ ProcContinue(w)
    /\ UNCHANGED <<procIn, extractedQueriesChan, pctxDone, bufcap, rawQueriesCache,
                   rawQueriesHashCache, fingerprintsCache, fingerprintsHashCache, errsChan,
                   progress>>
    /\ UNCHANGED <<lruVars, retryVars, ringVars, codecVars, collVars, sinkVars, repVars, histVars, trimVars, sampVars, loadVars, qcVars, dbiVars, exVars, nlVars, wdbVars>>

\* line 172: the channel is closed and drained, the worker returns
ProcReturn(w) ==
    /\ wpc[w] = "recv"
    /\ extractedQueriesChan = <<>>
    /\ wpc' = [wpc EXCEPT ![w] = "returned"]
    /\ UNCHANGED <<procIn, extractedQueriesChan, processedQueriesChan, pctxDone, wq, bufcap,
                   rawQueriesCache, rawQueriesHashCache, fingerprintsCache,
                   fingerprintsHashCache, errsChan, progress>>
    /\ UNCHANGED <<lruVars, retryVars, ringVars, codecVars, collVars, sinkVars, repVars, histVars, trimVars, sampVars, loadVars, qcVars, dbiVars, exVars, nlVars, wdbVars>>

\* the collector's context is cancelled (main.go lines 290, 308, 350, 373)
ProcCancel ==
    /\ ~pctxDone
    /\ pctxDone' = TRUE
    /\ UNCHANGED <<procIn, extractedQueriesChan, processedQueriesChan, wq, wpc, bufcap,
                   rawQueriesCache, rawQueriesHashCache, fingerprintsCache,
                   fingerprintsHashCache, errsChan, progress>>
    /\ UNCHANGED <<lruVars, retryVars, ringVars, codecVars, collVars, sinkVars, repVars, histVars, trimVars, sampVars, loadVars, qcVars, dbiVars, exVars, nlVars, wdbVars>>

ProcNext ==
    \/ \E w \in Workers : ProcReceive(w)
    \/ \E w \in Workers : ProcNormalizeRaw(w)
    \/ \E w \in Workers : ProcHashGet(w)
    \/ \E w \in Workers : ProcHashSet(w)
    \/ \E w \in Workers : ProcFingerprintGet(w)
    \/ \E w \in Workers : ProcNormalizeFingerprint(w)
    \/ \E w \in Workers : ProcFingerprintHashGet(w)
    \/ \E w \in Workers : ProcFingerprintHashSet(w)
    \/ \E w \in Workers : ProcSend(w)
    \/ \E w \in Workers : ProcReturn(w)
    \/ ProcCancel


(* Properties of the Processor *)

\* what the four caches and the hasher give for the bytes b handed to the
\* normalizer
ProcessedFrom(q, b) ==
    /\ q.CompletelyProcessed
    /\ q.Raw = Normalize(FALSE, b)
    /\ q.Hash = doHash(q.Raw)
    /\ q.Fingerprint = Normalize(TRUE, q.Raw)
    /\ q.FingerprintHash = doHash(q.Fingerprint)

\* every forwarded record is consistent with the bytes the normalizer was
\* given: the record's raw, trimmed and then lowered as a whole by
\* isValidQuery
ForwardedConsistent ==
    \A i \in 1..Len(processedQueriesChan) :
        /\ processedQueriesChan[i].Raw # <<>>
        /\ ProcessedFrom(processedQueriesChan[i],
                         ToLowerInPlace(bytesTrimSpace(processedQueriesChan[i].Orig)))

\* C10: every record forwarded to the sink queue that came from an extractor
\* has completely_processed = true, a non-empty raw equal to the normalizer
\* output (keyword_case = lower, remove_literals = false) for its
\* whitespace-trimmed input, hash = H(raw) and fingerprint_hash =
\* H(fingerprint), with any number of workers sharing the four caches.
ForwardedProcessed ==
    \A i \in 1..Len(processedQueriesChan) :
        LET q == processedQueriesChan[i]
        IN /\ q.CompletelyProcessed
           /\ q.Raw # <<>>
           /\ q.Raw = Normalize(FALSE, bytesTrimSpace(q.Orig))
           /\ q.Hash = doHash(q.Raw)
           /\ q.FingerprintHash = doHash(q.Fingerprint)

\* number of places of the sequence s that hold x
Occurrences(s, x) == Cardinality({i \in 1..Len(s) : s[i] = x})

AllWorkersReturned == \A w \in Workers : wpc[w] = "returned"

\* C11: a record that enters the Processor with completely_processed = true
\* and a valid raw is forwarded to the output queue exactly once, with all of
\* its fields unchanged (checked once every worker has returned and the
\* context was never cancelled).
ProcessedPassThrough ==
    (AllWorkersReturned /\ ~pctxDone) =>
        \A i \in 1..Len(procIn) :
            (procIn[i].CompletelyProcessed /\ isValidQuery(bytesTrimSpace(procIn[i].Raw))) =>
                Occurrences(processedQueriesChan, procIn[i]) = Occurrences(procIn, procIn[i])

----------------------------------------------------------------------------
(* The collector: CollectCmd.Execute (query-collector/main.go lines 289-376) *)
(* with the extractor, the Processor's workers and the sink as tasks          *)

CWorkers == 1..NumCWorkers

CollOff ==
    /\ cctx = "off"
    /\ ccause = "none"
    /\ toExtract = 0
    /\ nextId = 0
    /\ cin = <<>>
    /\ cinClosed = FALSE
    /\ cout = <<>>
    /\ coutClosed = FALSE
    /\ epc = "off"
    /\ cwpc = <<>>
    /\ cwq = <<>>
    /\ ppc = "off"
    /\ spc = "off"
    /\ consumed = <<>>
    /\ forwarded = <<>>
    /\ cerrs = 0
    /\ lpc = "off"
    /\ mpc = "off"
    /\ mresult = "none"
    /\ destroyed = FALSE
    /\ stageFailed = FALSE
    /\ signalled = FALSE

\* Execute up to the select (lines 290-361): the context, the two channels,
\* the three tasks started; the input holds toExtract records
CollNew ==
    /\ cctx = "live"
    /\ ccause = "none"
    /\ toExtract \in 0..MaxExtract
    /\ nextId = 1
    /\ cin = <<>>
    /\ cinClosed = FALSE
    /\ cout = <<>>
    /\ coutClosed = FALSE
    /\ epc = "loop"
    /\ cwpc = [w \in CWorkers |-> "recv"]
    /\ cwq = [w \in CWorkers |-> 0]
    /\ ppc = "wait"
    /\ spc = "recv"
    /\ consumed = <<>>
    /\ forwarded = <<>>
    /\ cerrs = 0
    /\ lpc = "run"
    /\ mpc = "select"
    /\ mresult = "none"
    /\ destroyed = FALSE
    /\ stageFailed = FALSE
    /\ signalled = FALSE

\* cancel(cause) of context.WithCancelCause: the first call wins; cancel(nil)
\* leaves the cause context.Canceled
Cancel(cause) ==
    IF cctx = "live"
    THEN /\ cctx' = "cancelled"
         /\ ccause' = cause
    ELSE UNCHANGED <<cctx, ccause>>

\* the extractor task at the head of its loop (part_000 lines 76-98 / part_005
\* lines 195-231, and main.go lines 306-313)
ExtractLoop ==
    /\ epc = "loop"
    /\ IF cctx = "cancelled"
       THEN \* ctx.Done: StartExtractor returns ctx.Err(), which is cancelled again
            /\ epc' = "returned"
            /\ UNCHANGED <<cctx, ccause, toExtract, cinClosed, stageFailed>>
       ELSE IF toExtract = 0
       THEN \* EOF: StartExtractor returns nil, the channel is closed
            /\ epc' = "returned"
            /\ cinClosed' = TRUE
            /\ UNCHANGED <<cctx, ccause, toExtract, stageFailed>>
       ELSE \/ \* a record was read: go and send it
               /\ epc' = "send"
               /\ toExtract' = toExtract - 1
               /\ UNCHANGED <<cctx, ccause, cinClosed, stageFailed>>
            \/ \* a line that does not parse, or a packet without a query, is skipped
               /\ toExtract' = toExtract - 1
               /\ UNCHANGED <<epc, cctx, ccause, cinClosed, stageFailed>>
            \/ \* the read fails: StartExtractor returns an error
               /\ epc' = "returned"
               /\ Cancel("extract")
               /\ stageFailed' = TRUE
               /\ UNCHANGED <<toExtract, cinClosed>>
    /\ UNCHANGED <<nextId, cin, cout, coutClosed, cwpc, cwq, ppc, spc, consumed, forwarded,
                   cerrs, lpc, mpc, mresult, destroyed, signalled>>
    /\ UNCHANGED <<lruVars, retryVars, ringVars, codecVars, procVars, sinkVars, repVars, histVars, trimVars, sampVars, loadVars, qcVars, dbiVars, exVars, nlVars, wdbVars>>

\* outChan <- q (part_000 line 104): waits while the channel is full
ExtractSend ==
    /\ epc = "send"
    /\ Len(cin) < ChanCap
    /\ cin' = Append(cin, nextId)
    /\ nextId' = nextId + 1
    /\ epc' = "loop"
    /\ UNCHANGED <<cctx, ccause, toExtract, cinClosed, cout, coutClosed, cwpc, cwq, ppc, spc,
                   consumed, forwarded, cerrs, lpc, mpc, mresult, destroyed, stageFailed,
                   signalled>>
    /\ UNCHANGED <<lruVars, retryVars, ringVars, codecVars, procVars, sinkVars, repVars, histVars, trimVars, sampVars, loadVars, qcVars, dbiVars, exVars, nlVars, wdbVars>>

\* a worker receives a record (part_003 lines 172-241): it returns if the
\* context is done; otherwise the record is dropped, fails to normalize, or
\* is to be forwarded
WorkerRecv(w) ==
    /\ cwpc[w] = "recv"
    /\ cin # <<>>
    /\ cin' = Tail(cin)
    /\ IF cctx = "cancelled"
       THEN /\ cwpc' = [cwpc EXCEPT ![w] = "returned"]
            /\ UNCHANGED cwq
       ELSE \/ /\ cwpc' = [cwpc EXCEPT ![w] = "recv"]
               /\ UNCHANGED cwq
            \/ /\ cwpc' = [cwpc EXCEPT ![w] = "errsend"]
               /\ UNCHANGED cwq
            \/ /\ cwpc' = [cwpc EXCEPT ![w] = "send"]
               /\ cwq' = [cwq EXCEPT ![w] = Head(cin)]
    /\ UNCHANGED <<cctx, ccause, toExtract, nextId, cinClosed, cout, coutClosed, epc, ppc, spc,
                   consumed, forwarded, cerrs, lpc, mpc, mresult, destroyed, stageFailed,
                   signalled>>
    /\ UNCHANGED <<lruVars, retryVars, ringVars, codecVars, procVars, sinkVars, repVars, histVars, trimVars, sampVars, loadVars, qcVars, dbiVars, exVars, nlVars, wdbVars>>

\* the range over a closed and drained channel ends (line 172)
WorkerRangeEnds(w) ==
    /\ cwpc[w] = "recv"
    /\ cin = <<>>
    /\ cinClosed
    /\ cwpc' = [cwpc EXCEPT ![w] = "returned"]
    /\ UNCHANGED <<cctx, ccause, toExtract, nextId, cin, cinClosed, cout, coutClosed, epc, cwq,
                   ppc, spc, consumed, forwarded, cerrs, lpc, mpc, mresult, destroyed,
                   stageFailed, signalled>>
    /\ UNCHANGED <<lruVars, retryVars, ringVars, codecVars, procVars, sinkVars, repVars, histVars, trimVars, sampVars, loadVars, qcVars, dbiVars, exVars, nlVars, wdbVars>>

\* outQueryChan <- q (line 243): waits while the channel is full
WorkerSend(w) ==
    /\ cwpc[w] = "send"
    /\ Len(cout) < ChanCap
    /\ cout' = Append(cout, cwq[w])
    /\ forwarded' = Append(forwarded, cwq[w])
    /\ cwq' = [cwq EXCEPT ![w] = 0]
    /\ cwpc' = [cwpc EXCEPT ![w] = "recv"]
    /\ UNCHANGED <<cctx, ccause, toExtract, nextId, cin, cinClosed, coutClosed, epc, ppc, spc,
                   consumed, cerrs, lpc, mpc, mresult, destroyed, stageFailed, signalled>>
    /\ UNCHANGED <<lruVars, retryVars, ringVars, codecVars, procVars, sinkVars, repVars, histVars, trimVars, sampVars, loadVars, qcVars, dbiVars, exVars, nlVars, wdbVars>>

\* errsChan <- err (lines 204, 224): waits while errsChan is full
WorkerErrSend(w) ==
    /\ cwpc[w] = "errsend"
    /\ cerrs < ErrsCap
    /\ cerrs' = cerrs + 1
    /\ cwpc' = [cwpc EXCEPT ![w] = "recv"]
    /\ UNCHANGED <<cctx, ccause, toExtract, nextId, cin, cinClosed, cout, coutClosed, epc, cwq,
                   ppc, spc, consumed, forwarded, lpc, mpc, mresult, destroyed, stageFailed,
                   signalled>>
    /\ UNCHANGED <<lruVars, retryVars, ringVars, codecVars, procVars, sinkVars, repVars, histVars, trimVars, sampVars, loadVars, qcVars, dbiVars, exVars, nlVars, wdbVars>>

\* the task that logs errsChan (part_003 lines 266-278)
ErrLogger ==
    /\ lpc = "run"
    /\ \/ /\ cctx = "cancelled"
          /\ lpc' = "returned"
          /\ UNCHANGED cerrs
       \/ /\ cerrs > 0
          /\ cerrs' = cerrs - 1
          /\ UNCHANGED lpc
    /\ UNCHANGED <<cctx, ccause, toExtract, nextId, cin, cinClosed, cout, coutClosed, epc, cwpc,
                   cwq, ppc, spc, consumed, forwarded, mpc, mresult, destroyed, stageFailed,
                   signalled>>
    /\ UNCHANGED <<lruVars, retryVars, ringVars, codecVars, procVars, sinkVars, repVars, histVars, trimVars, sampVars, loadVars, qcVars, dbiVars, exVars, nlVars, wdbVars>>

\* wg.Wait() (part_003 lines 257-264, 280): every worker has called wg.Done;
\* before it, a wait that ends as soon as one worker has returned
SomeCWorkerReturned == \E w \in CWorkers : cwpc[w] = "returned"

AllCWorkersReturned == \A w \in CWorkers : cwpc[w] = "returned"

\* StartProcessingQueries after wg.Wait (part_003 lines 280-281) and main.go
\* lines 325-330: it returns context.Cause(newCtx), nil only if the context
\* is live, and only then is the processed channel closed
ProcessorReturns ==
    /\ ppc = "wait"
    /\ AllCWorkersReturned
    /\ ppc' = "returned"
    /\ coutClosed' = (cctx = "live")
    /\ UNCHANGED <<cctx, ccause, toExtract, nextId, cin, cinClosed, cout, epc, cwpc, cwq, spc,
                   consumed, forwarded, cerrs, lpc, mpc, mresult, destroyed, stageFailed,
                   signalled>>
    /\ UNCHANGED <<lruVars, retryVars, ringVars, codecVars, procVars, sinkVars, repVars, histVars, trimVars, sampVars, loadVars, qcVars, dbiVars, exVars, nlVars, wdbVars>>

\* the sink receives a record (part_001 line 85, output_db.go line 265); the
\* write or the insert may fail, StartOutput then returns the error (main.go
\* lines 345-348)
SinkRecv ==
    /\ spc = "recv"
    /\ cout # <<>>
    /\ cout' = Tail(cout)
    /\ \/ /\ consumed' = Append(consumed, Head(cout))
          /\ UNCHANGED <<spc, cctx, ccause, stageFailed>>
       \/ /\ spc' = "returned"
          /\ Cancel("output")
          /\ stageFailed' = TRUE
          /\ UNCHANGED consumed
    /\ UNCHANGED <<toExtract, nextId, cin, cinClosed, coutClosed, epc, cwpc, cwq, ppc,
                   forwarded, cerrs, lpc, mpc, mresult, destroyed, signalled>>
    /\ UNCHANGED <<lruVars, retryVars, ringVars, codecVars, procVars, sinkVars, repVars, histVars, trimVars, sampVars, loadVars, qcVars, dbiVars, exVars, nlVars, wdbVars>>

\* the sink's range over the closed and drained channel ends: StartOutput
\* returns nil and the task calls cancel(nil) (main.go lines 349-350)
SinkRangeEnds ==
    /\ spc = "recv"
    /\ cout = <<>>
    /\ coutClosed
    /\ spc' = "returned"
    /\ Cancel("canceled")
    /\ UNCHANGED <<toExtract, nextId, cin, cinClosed, cout, coutClosed, epc, cwpc, cwq, ppc,
                   consumed, forwarded, cerrs, lpc, mpc, mresult, destroyed, stageFailed,
                   signalled>>
    /\ UNCHANGED <<lruVars, retryVars, ringVars, codecVars, procVars, sinkVars, repVars, histVars, trimVars, sampVars, loadVars, qcVars, dbiVars, exVars, nlVars, wdbVars>>

\* what Execute returns for the cause of the context (main.go lines 366-370)
ExitResultRaw(cause) == cause

ExitResult(cause) == IF cause = "canceled" THEN "nil" ELSE cause

\* Execute's select takes ctx.Done (main.go lines 364-370) and returns; the
\* deferred out.Destroy, proc.Close, in.Destroy run (lines 343, 323, 305)
MainCtxDone ==
    /\ mpc = "select"
    /\ cctx = "cancelled"
    /\ mpc' = "returned"
    /\ mresult' = ExitResult(ccause)
    /\ destroyed' = TRUE
    /\ UNCHANGED <<cctx, ccause, toExtract, nextId, cin, cinClosed, cout, coutClosed, epc, cwpc,
                   cwq, ppc, spc, consumed, forwarded, cerrs, lpc, stageFailed, signalled>>
    /\ UNCHANGED <<lruVars, retryVars, ringVars, codecVars, procVars, sinkVars, repVars, histVars, trimVars, sampVars, loadVars, qcVars, dbiVars, exVars, nlVars, wdbVars>>

\* Execute's select takes the signal (lines 371-374)
MainSignal ==
    /\ mpc = "select"
    /\ signalled' = TRUE
    /\ Cancel("canceled")
    /\ mpc' = "returned"
    /\ mresult' = "nil"
    /\ destroyed' = TRUE
    /\ UNCHANGED <<toExtract, nextId, cin, cinClosed, cout, coutClosed, epc, cwpc, cwq, ppc,
                   spc, consumed, forwarded, cerrs, lpc, stageFailed>>
    /\ UNCHANGED <<lruVars, retryVars, ringVars, codecVars, procVars, sinkVars, repVars, histVars, trimVars, sampVars, loadVars, qcVars, dbiVars, exVars, nlVars, wdbVars>>

CollTasks ==
    \/ ExtractLoop
    \/ ExtractSend
    \/ \E w \in CWorkers : WorkerRecv(w)
    \/ \E w \in CWorkers : WorkerRangeEnds(w)
    \/ \E w \in CWorkers : WorkerSend(w)
    \/ \E w \in CWorkers : WorkerErrSend(w)
    \/ ErrLogger
    \/ ProcessorReturns
    \/ SinkRecv
    \/ SinkRangeEnds
    \/ MainCtxDone

CollNext ==
    \/ CollTasks
    \/ MainSignal


(* Properties of the collector *)

TasksReturned == epc = "returned" /\ AllCWorkersReturned /\ spc = "returned"

\* C12: after the collector's context is cancelled with a cause (a stage
\* error), the extractor task, every processor worker and the sink task each
\* eventually return, whatever the two queues hold.
CancelStopsAllStages ==
    (cctx = "cancelled" /\ ccause \in {"extract", "output"}) ~> TasksReturned

\* C13: on every exit path of the orchestrator the shared resources are
\* destroyed only after every task that uses them has returned.
DestroyAfterTasks == destroyed => TasksReturned

CleanRun == ~stageFailed /\ ~signalled

\* C14: if extraction reaches EOF and no stage fails (and no signal arrives),
\* the collector terminates: Execute returns, and when it has returned the
\* extractor queue is closed, every worker has returned, the processed queue
\* is closed, the sink has consumed every forwarded record and has returned,
\* and the result is nil.
CleanCompletion ==
    /\ []((mpc = "returned" /\ CleanRun) =>
            /\ cinClosed /\ AllCWorkersReturned /\ coutClosed
            /\ spc = "returned"
            /\ consumed = forwarded
            /\ mresult = "nil")
    /\ <>(mpc = "returned" \/ ~CleanRun)

CleanCompletionWitness ==
    mpc = "returned" /\ CleanRun /\ Len(consumed) = MaxExtract

(***************************************************************************)
(* Batched DB sink: OutputDB.StartOutput, in its two implementations       *)
(*   "dbloader":  src/internal/cmd/dbloader/dbloader.go 142-198            *)
(*   "collector": src/internal/cmd/query-collector/output_db.go 225-287    *)
(* A record is its position in the input; an insert transaction commits or *)
(* fails.                                                                  *)
(***************************************************************************)
Impls == {"dbloader", "collector"}

SinkOff ==
    /\ dbImpl = "off"
    /\ batchSize = 0
    /\ dbTruncate = FALSE
    /\ dbChan = <<>>
    /\ dbClosed = FALSE
    /\ batch = <<>>
    /\ received = <<>>
    /\ submitted = <<>>
    /\ dbpc = "off"
    /\ dbResult = "none"

\* NewDBOutput: the configuration is taken as given (no check of BatchSize);
\* dbChan is what the upstream stage will send, dbClosed whether it closes
\* the channel after that
NewDBOutput ==
    /\ dbImpl \in Impls
    /\ batchSize \in 0..MaxBatch
    /\ dbTruncate \in BOOLEAN
    /\ dbChan \in {[i \in 1..n |-> i] : n \in 0..MaxSinkIn}
    /\ dbClosed \in BOOLEAN
    /\ batch = <<>>
    /\ received = <<>>
    /\ submitted = <<>>
    /\ dbpc = "start"
    /\ dbResult = "none"

\* if o.cfg.Truncate { if err := o.truncateTables(ctx); err != nil { return } }
StartOutputTruncate ==
    /\ dbpc = "start"
    /\ IF dbTruncate
       THEN \E ok \in BOOLEAN :
               IF ok
               THEN dbpc' = "loop" /\ UNCHANGED dbResult
               ELSE dbpc' = "returned" /\ dbResult' = "error truncating tables"
       ELSE dbpc' = "loop" /\ UNCHANGED dbResult
    /\ UNCHANGED <<dbImpl, batchSize, dbTruncate, dbChan, dbClosed, batch, received,
                   submitted>>
    /\ UNCHANGED <<lruVars, retryVars, ringVars, codecVars, procVars, collVars, repVars, histVars, trimVars, sampVars, loadVars, qcVars, dbiVars, exVars, nlVars, wdbVars>>

\* if len(batch) >= o.cfg.BatchSize
BatchFullLate(b) == Len(b) > batchSize

BatchFull(b) == Len(b) >= batchSize

\* one iteration of `for q := range inQueryChan`: the dbloader hands a full
\* batch to the pool and goes on with a new slice; the collector inserts it
\* itself (insertQueryBatch2) and returns the error of a failed insert
StartOutputRecv ==
    /\ dbpc = "loop"
    /\ dbChan # <<>>
    /\ LET q == Head(dbChan)
           b == Append(batch, q)
       IN  /\ dbChan' = Tail(dbChan)
           /\ received' = Append(received, q)
           /\ IF ~BatchFull(b)
              THEN /\ batch' = b
                   /\ UNCHANGED <<submitted, dbpc, dbResult>>
              ELSE IF dbImpl = "dbloader"
              THEN /\ submitted' = Append(submitted, [recs |-> b, state |-> "queued"])
                   /\ batch' = <<>>
                   /\ UNCHANGED <<dbpc, dbResult>>
              ELSE \E ok \in BOOLEAN :
                      IF ok
                      THEN /\ submitted' = Append(submitted,
                                                  [recs |-> b, state |-> "committed"])
                           /\ batch' = <<>>
                           /\ UNCHANGED <<dbpc, dbResult>>
                      ELSE /\ submitted' = Append(submitted,
                                                  [recs |-> b, state |-> "failed"])
                           /\ batch' = b
                           /\ dbpc' = "returned"
                           /\ dbResult' = "error inserting query"
    /\ UNCHANGED <<dbImpl, batchSize, dbTruncate, dbClosed>>
    /\ UNCHANGED <<lruVars, retryVars, ringVars, codecVars, procVars, collVars, repVars, histVars, trimVars, sampVars, loadVars, qcVars, dbiVars, exVars, nlVars, wdbVars>>

\* the channel is closed and drained: the range loop ends and the batch that
\* is left is inserted (dbloader: by the pool; collector: insertQueryBatch)
StartOutputRangeEnds ==
    /\ dbpc = "loop"
    /\ dbChan = <<>>
    /\ dbClosed
    /\ IF dbImpl = "dbloader"
       THEN /\ submitted' = IF Len(batch) > 0
                            THEN Append(submitted, [recs |-> batch, state |-> "queued"])
                            ELSE submitted
            /\ dbpc' = "wait"
            /\ UNCHANGED dbResult
       ELSE IF Len(batch) > 0
       THEN \E ok \in BOOLEAN :
               /\ submitted' = Append(submitted,
                                      [recs |-> batch,
                                       state |-> IF ok THEN "committed" ELSE "failed"])
               /\ dbpc' = "returned"
               /\ dbResult' = IF ok THEN "nil" ELSE "error inserting final batch"
       ELSE /\ dbpc' = "returned"
            /\ dbResult' = "nil"
            /\ UNCHANGED submitted
    /\ UNCHANGED <<dbImpl, batchSize, dbTruncate, dbChan, dbClosed, batch, received>>
    /\ UNCHANGED <<lruVars, retryVars, ringVars, codecVars, procVars, collVars, repVars, histVars, trimVars, sampVars, loadVars, qcVars, dbiVars, exVars, nlVars, wdbVars>>

\* a pool worker runs a submitted task: insertBatch commits, or fails and the
\* error is printed
PoolRun(i) ==
    /\ i \in DOMAIN submitted
    /\ submitted[i].state = "queued"
    /\ \E ok \in BOOLEAN :
          submitted' = [submitted EXCEPT ![i].state = IF ok THEN "committed" ELSE "failed"]
    /\ UNCHANGED <<dbImpl, batchSize, dbTruncate, dbChan, dbClosed, batch, received, dbpc,
                   dbResult>>
    /\ UNCHANGED <<lruVars, retryVars, ringVars, codecVars, procVars, collVars, repVars, histVars, trimVars, sampVars, loadVars, qcVars, dbiVars, exVars, nlVars, wdbVars>>

\* o.pool.StopAndWait(); return nil
StopAndWait ==
    /\ dbpc = "wait"
    /\ \A i \in DOMAIN submitted : submitted[i].state # "queued"
    /\ dbpc' = "returned"
    /\ dbResult' = "nil"
    /\ UNCHANGED <<dbImpl, batchSize, dbTruncate, dbChan, dbClosed, batch, received,
                   submitted>>
    /\ UNCHANGED <<lruVars, retryVars, ringVars, codecVars, procVars, collVars, repVars, histVars, trimVars, sampVars, loadVars, qcVars, dbiVars, exVars, nlVars, wdbVars>>

SinkNext ==
    \/ StartOutputTruncate
    \/ StartOutputRecv
    \/ StartOutputRangeEnds
    \/ \E i \in 1..MaxSinkIn : PoolRun(i)
    \/ StopAndWait

RECURSIVE FlattenBatches(_)
\* the records of the submitted batches, in the order of submission
FlattenBatches(bs) ==
    IF bs = <<>> THEN <<>> ELSE bs[1].recs \o FlattenBatches(Tail(bs))

\* the number of records at which `len(batch) >= BatchSize` first holds
\* after an append
EffectiveBatchSize == IF batchSize < 1 THEN 1 ELSE batchSize

FailedBatchSkipped ==
    (dbpc = "returned" /\ \E i \in DOMAIN submitted : submitted[i].state = "failed") =>
        /\ dbResult = "nil"
        /\ dbChan = <<>>
        /\ \A i \in DOMAIN submitted : submitted[i].state \in {"committed", "failed"}

(***************************************************************************)
(* Reporter (load-test): src/internal/cmd/load-test/reporter.go,           *)
(* sanitizeReport and broadcastStats of src/internal/cmd/load-test/        *)
(* web_ui.go 62-118.                                                       *)
(* A latency is float64(res.ExecLatency.Microseconds()), an integer.  The  *)
(* other floats are quotients: [k, n, d] is n/d when k = "fin", and the    *)
(* IEEE results of a division by zero otherwise.                           *)
(***************************************************************************)
Fin(n) == [k |-> "fin", n |-> n, d |-> 1]

NaN == [k |-> "nan", n |-> 0, d |-> 0]

Inf == [k |-> "inf", n |-> 1, d |-> 0]

\* float64(a) / float64(b) for integers a >= 0, b >= 0
Div(a, b) ==
    IF b = 0
    THEN IF a = 0 THEN NaN ELSE Inf
    ELSE [k |-> "fin", n |-> a, d |-> b]

\* math.IsNaN(f) || math.IsInf(f, 0)
IsNaNOrInf(f) == f.k \in {"nan", "inf"}

Unsorted(l) == l

\* sort.Float64s(r.Lats): the elements of l in ascending order; position i
\* holds the value with fewer than i elements below it and at least i
\* elements not above it
SortFloat64s(l) ==
    [i \in 1..Len(l) |->
        CHOOSE x \in {l[j] : j \in DOMAIN l} :
            /\ Cardinality({j \in DOMAIN l : l[j] < x}) < i
            /\ i <= Cardinality({j \in DOMAIN l : l[j] <= x})]

\* insertAggregate: at capacity the slice becomes its elements from the
\* second on; below capacity the aggregate is appended
insertAggregate(Aggs, aggregate) ==
    IF Len(Aggs) >= maxAggregatesHistory
    THEN Tail(Aggs)
    ELSE Append(Aggs, aggregate)

\* the ReportAggregateStat that aggregate() builds from the sorted latencies;
\* elapsed is time.Since(r.StartAt)
Aggregate(lats, numRes, avgTotal, elapsed) ==
    LET s == SortFloat64s(lats)
        n == Len(s)
    IN  [QPS     |-> Div(numRes, elapsed),
         Average |-> Div(avgTotal, n),
         NumRes  |-> numRes,
         Fastest |-> s[1],
         Slowest |-> s[n],
         LatP50  |-> s[((n * 50) \div 100) + 1],
         LatP95  |-> s[((n * 95) \div 100) + 1],
         LatP99  |-> s[((n * 99) \div 100) + 1]]

\* the float fields of the Report that json.Marshal serializes
Snapshot(hitRate, lats, avgTotal, aggs) ==
    [CacheHitRate |-> hitRate, Lats |-> lats, AvgTotal |-> avgTotal, Aggregates |-> aggs]

\* sanitizeReport: CacheHitRate and the two latency lists are looked at (a
\* latency of the model is finite as it stands); the aggregates and AvgTotal
\* are copied as they are
sanitizeReport(report) ==
    [report EXCEPT !.CacheHitRate = IF IsNaNOrInf(@) THEN Fin(0) ELSE @]

\* the report sanitizeReport was given, after the call: `copy := *report`
\* copies the pointer InternalStats, so copy.InternalStats is the
\* original's and what is stored through it is stored in the original
OriginalAfter(report) ==
    [report EXCEPT !.CacheHitRate = sanitizeReport(report).CacheHitRate]

\* json.Marshal returns an UnsupportedValueError for a NaN or infinite float
AllFinite(report) ==
    /\ ~IsNaNOrInf(report.CacheHitRate)
    /\ \A i \in DOMAIN report.Aggregates :
          /\ ~IsNaNOrInf(report.Aggregates[i].QPS)
          /\ ~IsNaNOrInf(report.Aggregates[i].Average)

Clients == 1..NumClients

\* a QueryResult: <<>> with Err set, <<latency>> without
Results == {<<>>} \cup {<<l>> : l \in LatVals}

Descending(n) == [i \in 1..n |-> n + 1 - i]

RepOff ==
    /\ Lats = <<>>
    /\ NumRes = 0
    /\ AvgTotal = 0
    /\ Aggregates = <<>>
    /\ CacheHitRate = Fin(0)
    /\ givenHitRate = <<>>
    /\ clients = {}
    /\ written = {}
    /\ sanitized = <<>>
    /\ lastLats = <<>>
    /\ lastAgg = <<>>
    /\ ticks = -1

\* newReport, and the WebSocket clients connected while the test runs
newReport ==
    /\ Lats = <<>>
    /\ NumRes = 0
    /\ AvgTotal = 0
    /\ Aggregates = <<>>
    /\ CacheHitRate = Fin(0)
    /\ givenHitRate = <<>>
    /\ clients \in SUBSET Clients
    /\ written = {}
    /\ sanitized = <<>>
    /\ lastLats = <<>>
    /\ lastAgg = <<>>
    /\ ticks = 0

\* collect: r.NumRes++, and for a result without error the latency is added
\* to AvgTotal and appended to Lats (below maxRes)
CollectNumRes(numRes, res) == numRes + 1

CollectAvgTotal(avgTotal, res) == IF res = <<>> THEN avgTotal ELSE avgTotal + res[1]

CollectLats(lats, res) ==
    IF res # <<>> /\ Len(lats) < maxRes THEN Append(lats, res[1]) ELSE lats

\* a result arrives and no tick is pending
RepCollect(res) ==
    /\ ticks >= 0
    /\ NumRes < MaxLats
    /\ NumRes' = CollectNumRes(NumRes, res)
    /\ AvgTotal' = CollectAvgTotal(AvgTotal, res)
    /\ Lats' = CollectLats(Lats, res)
    /\ UNCHANGED <<Aggregates, CacheHitRate, givenHitRate, clients, written, sanitized, lastLats,
                   lastAgg, ticks>>
    /\ UNCHANGED <<lruVars, retryVars, ringVars, codecVars, procVars, collVars, sinkVars, histVars, trimVars, sampVars, loadVars, qcVars, dbiVars, exVars, nlVars, wdbVars>>

\* n results without error arrive in a row and no tick is pending, the
\* slowest first: n times collect, with the latencies n, n-1, .., 1
RepCollectBurst(n) ==
    /\ ticks >= 0
    /\ NumRes = 0
    /\ NumRes' = n
    /\ AvgTotal' = (n * (n + 1)) \div 2
    /\ Lats' = Descending(n)
    /\ UNCHANGED <<Aggregates, CacheHitRate, givenHitRate, clients, written, sanitized, lastLats,
                   lastAgg, ticks>>
    /\ UNCHANGED <<lruVars, retryVars, ringVars, codecVars, procVars, collVars, sinkVars, histVars, trimVars, sampVars, loadVars, qcVars, dbiVars, exVars, nlVars, wdbVars>>

\* a result arrives and a tick is pending: the internal statistics are read
\* (hits, misses), aggregate() runs, the report is broadcast (each client in
\* failing has a failing WriteMessage), and then the result is collected
RepTick(res, hits, misses, elapsed, failing) ==
    /\ ticks >= 0
    /\ ticks < MaxTicks
    /\ ticks' = ticks + 1
    /\ LET hitRate == Div(hits * 100, hits + misses)
           agg     == Aggregate(Lats, NumRes, AvgTotal, elapsed)
           aggs    == IF Len(Lats) > 0 THEN insertAggregate(Aggregates, agg) ELSE Aggregates
           lats    == IF Len(Lats) > 0 THEN <<>> ELSE Lats
           total   == IF Len(Lats) > 0 THEN 0 ELSE AvgTotal
           numRes  == IF Len(Lats) > 0 THEN 0 ELSE NumRes
           report  == sanitizeReport(Snapshot(hitRate, lats, total, aggs))
           given   == Snapshot(hitRate, lats, total, aggs)
       IN  /\ CacheHitRate' = OriginalAfter(given).CacheHitRate
           /\ givenHitRate' = <<hitRate>>
           /\ Aggregates' = aggs
           /\ lastLats' = IF Len(Lats) > 0 THEN Lats ELSE lastLats
           /\ lastAgg' = IF Len(Lats) > 0 THEN <<agg>> ELSE lastAgg
           /\ sanitized' = <<report>>
           /\ IF AllFinite(report)
              THEN /\ written' = written \cup
                                 {[client |-> c, data |-> report] : c \in clients \ failing}
                   /\ clients' = clients \ failing
              ELSE /\ written' = written
                   /\ clients' = {}
           /\ NumRes' = CollectNumRes(numRes, res)
           /\ AvgTotal' = CollectAvgTotal(total, res)
           /\ Lats' = CollectLats(lats, res)
    /\ UNCHANGED <<lruVars, retryVars, ringVars, codecVars, procVars, collVars, sinkVars, histVars, trimVars, sampVars, loadVars, qcVars, dbiVars, exVars, nlVars, wdbVars>>

RepNext ==
    \/ \E res \in Results : RepCollect(res)
    \/ \E n \in BurstLens : RepCollectBurst(n)
    \/ \E res \in Results, hits, misses \in 0..MaxHits, elapsed \in 0..MaxElapsed,
          failing \in SUBSET Clients :
          RepTick(res, hits, misses, elapsed, failing)

\* C35: sanitizeReport does not modify the report it is given: after the
\* call the report's internal statistics hold the values they held before.
SanitizeLeavesOriginal ==
    givenHitRate # <<>> => CacheHitRate = givenHitRate[1]

\* x is the element at index i (from 0) of the ascending order of l
IsAtSortedIndex(l, i, x) ==
    /\ \E j \in DOMAIN l : l[j] = x
    /\ Cardinality({j \in DOMAIN l : l[j] < x}) <= i
    /\ i < Cardinality({j \in DOMAIN l : l[j] <= x})

\* C19: every float of a snapshot written to a client is finite, because
\* every NaN or infinite value of the report has been replaced by 0 before
\* the report is serialized.
BroadcastFinite ==
    /\ \A w \in written : AllFinite(w.data)
    /\ sanitized # <<>> => AllFinite(sanitized[1])

\* C20: for a non-empty latency list of length n the aggregate's p50, p95 and
\* p99 are the elements at indices floor(n*50/100), floor(n*95/100) and
\* floor(n*99/100) of the ascending list, the indices are below n, fastest is
\* the element at index 0 and slowest the element at index n-1.
PercentilesCorrect ==
    lastLats # <<>> =>
        LET n == Len(lastLats)
            a == lastAgg[1]
        IN  /\ (n * 50) \div 100 < n /\ IsAtSortedIndex(lastLats, (n * 50) \div 100, a.LatP50)
            /\ (n * 95) \div 100 < n /\ IsAtSortedIndex(lastLats, (n * 95) \div 100, a.LatP95)
            /\ (n * 99) \div 100 < n /\ IsAtSortedIndex(lastLats, (n * 99) \div 100, a.LatP99)
            /\ IsAtSortedIndex(lastLats, 0, a.Fastest)
            /\ IsAtSortedIndex(lastLats, n - 1, a.Slowest)

PercentilesCorrectWitness ==
    /\ lastLats = <<2, 1>>
    /\ lastAgg[1].Fastest = 1
    /\ lastAgg[1].LatP50 = 2

PercentilesLongWitness ==
    /\ Len(lastLats) = 40
    /\ lastAgg[1].LatP50 = 21
    /\ lastAgg[1].LatP95 = 39
    /\ lastAgg[1].LatP99 = 40

(***************************************************************************)
(* The reporter's history over many ticks: src/internal/cmd/load-test/     *)
(* reporter.go 56-91, 107-164.  Aggregates is a slice of pointers: an      *)
(* aggregate is the number of its allocation, and of Lats the length is    *)
(* kept.                                                                   *)
(***************************************************************************)
HistOff ==
    /\ history = <<>>
    /\ allocated = 0
    /\ pending = 0
    /\ newest = 0
    /\ before = <<>>
    /\ hpc = "off"

\* newReport: Aggregates is empty with capacity maxAggregatesHistory
HistNew ==
    /\ history = <<>>
    /\ allocated = 0
    /\ pending = 0
    /\ newest = 0
    /\ before = <<>>
    /\ hpc = "run"

\* a result is collected: a latency is appended unless the result is an error
HistCollect(ok) ==
    /\ hpc = "run"
    /\ pending < MaxPending
    /\ pending' = IF ok THEN pending + 1 ELSE pending
    /\ UNCHANGED <<history, allocated, newest, before, hpc>>
    /\ UNCHANGED <<lruVars, retryVars, ringVars, codecVars, procVars, collVars, sinkVars, repVars, trimVars, sampVars, loadVars, qcVars, dbiVars, exVars, nlVars, wdbVars>>

\* aggregate() on a tick: with len(r.Lats) > 0 a new aggregate is built and
\* handed to insertAggregate, and Lats is emptied
HistTick ==
    /\ hpc = "run"
    /\ allocated < MaxAggregates
    /\ IF pending > 0
       THEN /\ allocated' = allocated + 1
            /\ newest' = allocated + 1
            /\ before' = history
            /\ history' = insertAggregate(history, allocated + 1)
            /\ pending' = 0
       ELSE UNCHANGED <<history, allocated, pending, newest, before>>
    /\ UNCHANGED hpc
    /\ UNCHANGED <<lruVars, retryVars, ringVars, codecVars, procVars, collVars, sinkVars, repVars, trimVars, sampVars, loadVars, qcVars, dbiVars, exVars, nlVars, wdbVars>>

HistNext ==
    \/ \E ok \in BOOLEAN : HistCollect(ok)
    \/ HistTick

\* C18: after an aggregation tick with at least one latency the new
\* aggregate is the last element of the history; the history never holds
\* more than 100 aggregates; when it was full exactly the oldest aggregate
\* is dropped and the order of the others is kept.
HistoryKeepsNewest ==
    /\ Len(history) <= maxAggregatesHistory
    /\ newest # 0 =>
          /\ history # <<>>
          /\ history[Len(history)] = newest
          /\ Len(before) >= maxAggregatesHistory => history = Tail(before) \o <<newest>>
          /\ Len(before) < maxAggregatesHistory => history = before \o <<newest>>

(***************************************************************************)
(* In-place trim (query-collector): bytesTrimSpace and                     *)
(* bytesTrimFuncInPlace, src/unnamed/part_007 29-58, applied to byte       *)
(* strings of up to MaxTrimLen bytes.                                      *)
(***************************************************************************)
\* space, tab, LF, CR and the letter a
TrimBytes == {32, 9, 10, 13, 97}

TrimOff ==
    /\ trimIn = <<>>
    /\ trimOut = <<>>
    /\ trimPc = "off"
    /\ trimCap = 0
    /\ trimOutCap = 0

TrimNew ==
    /\ trimIn \in SeqsUpTo(TrimBytes, MaxTrimLen)
    /\ trimOut = <<>>
    /\ trimPc = "call"
    /\ trimCap \in Len(trimIn)..(Len(trimIn) + MaxSpare)
    /\ trimOutCap = 0

\* cap(b[:n:n]), the slice expression bytesTrimFuncInPlace returns
\* (part_007 lines 54-57): the third index is the new capacity
CapOfFullSlice(n, max) == max

\* newb := bytesTrimSpace(b)
TrimCall ==
    /\ trimPc = "call"
    /\ trimOut' = bytesTrimSpace(trimIn)
    /\ trimOutCap' = CapOfFullSlice(Len(trimOut'), Len(trimOut'))
    /\ trimPc' = "done"
    /\ UNCHANGED <<trimIn, trimCap>>
    /\ UNCHANGED <<lruVars, retryVars, ringVars, codecVars, procVars, collVars, sinkVars, repVars, histVars, sampVars, loadVars, qcVars, dbiVars, exVars, nlVars, wdbVars>>

TrimNext == TrimCall

\* C21: the trim returns its input without the leading and the trailing
\* whitespace bytes (space, tab, CR, LF), every byte between the first and
\* the last other byte kept in order; an input of whitespace only, or the
\* empty input, gives the empty string.
TrimExact ==
    trimPc = "done" =>
        LET kept == {i \in DOMAIN trimIn : trimIn[i] \notin {32, 9, 13, 10}}
        IN  IF kept = {}
            THEN trimOut = <<>>
            ELSE LET first == CHOOSE i \in kept : \A j \in kept : i <= j
                     last  == CHOOSE i \in kept : \A j \in kept : j <= i
                 IN  trimOut = SubSeq(trimIn, first, last)

\* leading and trailing whitespace around an interior space
TrimExactWitness ==
    /\ trimPc = "done"
    /\ trimIn = <<9, 97, 32, 97>>
    /\ trimOut = <<97, 32, 97>>

TrimTrailingWitness ==
    /\ trimPc = "done"
    /\ trimIn = <<32, 97, 13, 10>>
    /\ trimOut = <<97>>

\* C33: the slice the trim returns has the capacity of the slice it was
\* given, whether or not there was whitespace to trim.
TrimKeepsCapacity ==
    trimPc = "done" => trimOutCap = trimCap

\* the same for the inputs without spare capacity and without whitespace at
\* either end
TrimKeepsCapacityUntrimmed ==
    (trimCap = Len(trimIn) /\ trimOut = trimIn) => TrimKeepsCapacity

(***************************************************************************)
(* Weighted sampler (load-test): QueryFingerprintWeights,                  *)
(* src/internal/cmd/load-test/query_source.go 25-70.  A weight is a whole  *)
(* number; rand.Float64() * totalWeight is k / Grid for a k in             *)
(* 0 .. totalWeight * Grid - 1, each k as likely as any other.             *)
(* GetRandomWeighted itself stands with the replay reader, which calls it. *)
(***************************************************************************)
SampOff ==
    /\ sampWeights = <<>>
    /\ sampR = -1
    /\ sampChosen = 0
    /\ sampPc = "off"

\* NewQueryFingerprintWeights and the calls of Add
SampNew ==
    /\ sampWeights \in SeqsUpTo(0..MaxWeight, MaxEntries)
    /\ sampR = -1
    /\ sampChosen = 0
    /\ sampPc = "ready"

\* the values rand.Float64() * totalWeight takes, as multiples of 1 / Grid
Draws(ws) == 0..(TotalWeight(ws) * Grid - 1)

\* one call of GetRandomWeighted
GetRandomWeightedCall ==
    /\ sampPc = "ready"
    /\ IF TotalWeight(sampWeights) <= 0
       THEN sampR' = 0 /\ sampChosen' = GetRandomWeighted(sampWeights, 0)
       ELSE \E k \in Draws(sampWeights) :
               /\ sampR' = k
               /\ sampChosen' = GetRandomWeighted(sampWeights, k)
    /\ UNCHANGED <<sampWeights, sampPc>>
    /\ UNCHANGED <<lruVars, retryVars, ringVars, codecVars, procVars, collVars, sinkVars, repVars, histVars, trimVars, loadVars, qcVars, dbiVars, exVars, nlVars, wdbVars>>

SampNext == GetRandomWeightedCall

\* C22: with a total weight above 0 the sampler returns entry i with
\* probability w_i / total: of the total * Grid equally likely draws, the
\* number that return entry i is w_i * Grid, give or take the one draw on a
\* boundary, so the frequency of entry i tends to w_i / total.
SamplingProportional ==
    TotalWeight(sampWeights) > 0 =>
        \A i \in DOMAIN sampWeights :
            LET hits == Cardinality({k \in Draws(sampWeights) :
                                        GetRandomWeighted(sampWeights, k) = i})
            IN  /\ hits <= sampWeights[i] * Grid + 1
                /\ hits >= sampWeights[i] * Grid - 1

\* the weights 10/30/60 of the example, in tenths
SamplingProportionalWitness ==
    /\ sampWeights = <<1, 3, 6>>
    /\ sampChosen = 2
    /\ sampR = 5

(***************************************************************************)
(* Load test (load-test): performLoadTest (src/unnamed/part_010 24-122),   *)
(* the querier workers and the reporter loop.  The querier is there twice: *)
(*   "fast":    Querier.do/Run of src/unnamed/part_013 102-138             *)
(*   "explain": Querier.do/Run of src/internal/cmd/load-test/reporter.go   *)
(*              330-387                                                    *)
(* The reporter is runReporter (reporter.go 104-167), with its counters    *)
(* only; what a tick computes is in SpecReport.                            *)
(***************************************************************************)
Queriers == 1..NumQueriers

Variants == {"fast", "explain"}

LoadOff ==
    /\ qVariant = "off"
    /\ qGating = FALSE
    /\ lctx = "off"
    /\ tickerC = 0
    /\ tickerStopped = FALSE
    /\ emitted = 0
    /\ entered = 0
    /\ qpc = <<>>
    /\ qres = <<>>
    /\ qtokens = <<>>
    /\ qstarted = <<>>
    /\ resultsChan = <<>>
    /\ fatalOpen = FALSE
    /\ reppc = "off"
    /\ lNumRes = 0
    /\ lErrorDist = 0
    /\ lLats = 0
    /\ lReceived = 0
    /\ lastHandled = <<>>
    /\ mainReturned = FALSE

\* performLoadTest up to its select: the ticker exists when config.QPS > 0,
\* the workers and the reporter are started
LoadNew ==
    /\ qVariant \in Variants
    /\ qGating \in BOOLEAN
    /\ lctx = "live"
    /\ tickerC = 0
    /\ tickerStopped = FALSE
    /\ emitted = 0
    /\ entered = 0
    /\ qpc = [w \in Queriers |-> "top"]
    /\ qres = [w \in Queriers |-> <<>>]
    /\ qtokens = [w \in Queriers |-> 0]
    /\ qstarted = [w \in Queriers |-> 0]
    /\ resultsChan = <<>>
    /\ fatalOpen = TRUE
    /\ reppc = "recv"
    /\ lNumRes = 0
    /\ lErrorDist = 0
    /\ lLats = 0
    /\ lReceived = 0
    /\ lastHandled = <<>>
    /\ mainReturned = FALSE

\* if q.qpsTicker != nil
NeedsTokenNever(gating) == FALSE
NeedsToken(gating) == gating

\* Run, the head of the loop: ctx.Done() when the context is cancelled, the
\* default branch otherwise
QuerierTop(w) ==
    /\ qpc[w] = "top"
    /\ IF lctx = "cancelled"
       THEN /\ qpc' = [qpc EXCEPT ![w] = "returned"]
            /\ UNCHANGED entered
       ELSE /\ entered < MaxExec
            /\ entered' = entered + 1
            /\ qpc' = [qpc EXCEPT ![w] = IF NeedsToken(qGating) THEN "token" ELSE "do"]
    /\ UNCHANGED <<qVariant, qGating, lctx, tickerC, tickerStopped, emitted, qres, qtokens,
                   qstarted, resultsChan, fatalOpen, reppc, lNumRes, lErrorDist, lLats,
                   lReceived, lastHandled, mainReturned>>
    /\ UNCHANGED <<lruVars, retryVars, ringVars, codecVars, procVars, collVars, sinkVars, repVars, histVars, trimVars, sampVars, qcVars, dbiVars, exVars, nlVars, wdbVars>>

\* the ticker puts a token into its channel of capacity 1 (a tick that finds
\* the channel full is dropped)
TickerEmit ==
    /\ qGating
    /\ ~tickerStopped
    /\ tickerC = 0
    /\ emitted <= MaxExec
    /\ tickerC' = 1
    /\ emitted' = emitted + 1
    /\ UNCHANGED <<qVariant, qGating, lctx, tickerStopped, entered, qpc, qres, qtokens,
                   qstarted, resultsChan, fatalOpen, reppc, lNumRes, lErrorDist, lLats,
                   lReceived, lastHandled, mainReturned>>
    /\ UNCHANGED <<lruVars, retryVars, ringVars, codecVars, procVars, collVars, sinkVars, repVars, histVars, trimVars, sampVars, qcVars, dbiVars, exVars, nlVars, wdbVars>>

\* <-q.qpsTicker.C
QuerierToken(w) ==
    /\ qpc[w] = "token"
    /\ tickerC = 1
    /\ tickerC' = 0
    /\ qtokens' = [qtokens EXCEPT ![w] = @ + 1]
    /\ qpc' = [qpc EXCEPT ![w] = "do"]
    /\ UNCHANGED <<qVariant, qGating, lctx, tickerStopped, emitted, entered, qres, qstarted,
                   resultsChan, fatalOpen, reppc, lNumRes, lErrorDist, lLats, lReceived,
                   lastHandled, mainReturned>>
    /\ UNCHANGED <<lruVars, retryVars, ringVars, codecVars, procVars, collVars, sinkVars, repVars, histVars, trimVars, sampVars, qcVars, dbiVars, exVars, nlVars, wdbVars>>

\* the QueryResult of do: the fast querier sets Err when the execution
\* failed; the explain querier stores a querierError value in Err in every
\* case, and an interface holding a struct is not nil
ResultOf(variant, execOk) ==
    [Err |-> (variant = "explain") \/ ~execOk, execErr |-> ~execOk, lat |-> 1]

\* do, up to the send: the data source gives a query or an error; the query
\* is executed.  An error of the data source ends do: the fast Run goes on
\* with its loop, the explain Run returns it and the worker hands it to
\* fatalErrsChan
QuerierDo(w) ==
    /\ qpc[w] = "do"
    /\ \E srcOk, execOk \in BOOLEAN :
          IF srcOk
          THEN /\ qstarted' = [qstarted EXCEPT ![w] = @ + 1]
               /\ qres' = [qres EXCEPT ![w] = <<ResultOf(qVariant, execOk)>>]
               /\ qpc' = [qpc EXCEPT ![w] = "send"]
          ELSE /\ qpc' = [qpc EXCEPT ![w] = IF qVariant = "fast" THEN "top" ELSE "fatal"]
               /\ UNCHANGED <<qstarted, qres>>
    /\ UNCHANGED <<qVariant, qGating, lctx, tickerC, tickerStopped, emitted, entered,
                   qtokens, resultsChan, fatalOpen, reppc, lNumRes, lErrorDist, lLats,
                   lReceived, lastHandled, mainReturned>>
    /\ UNCHANGED <<lruVars, retryVars, ringVars, codecVars, procVars, collVars, sinkVars, repVars, histVars, trimVars, sampVars, qcVars, dbiVars, exVars, nlVars, wdbVars>>

\* q.results <- result
QuerierSend(w) ==
    /\ qpc[w] = "send"
    /\ Len(resultsChan) < ResCap
    /\ resultsChan' = Append(resultsChan, qres[w][1])
    /\ qres' = [qres EXCEPT ![w] = <<>>]
    /\ qpc' = [qpc EXCEPT ![w] = "top"]
    /\ UNCHANGED <<qVariant, qGating, lctx, tickerC, tickerStopped, emitted, entered,
                   qtokens, qstarted, fatalOpen, reppc, lNumRes, lErrorDist, lLats,
                   lReceived, lastHandled, mainReturned>>
    /\ UNCHANGED <<lruVars, retryVars, ringVars, codecVars, procVars, collVars, sinkVars, repVars, histVars, trimVars, sampVars, qcVars, dbiVars, exVars, nlVars, wdbVars>>

\* fatalErrsChan <- err: the channel has no buffer and its reader takes one
\* error, cancels with it and returns
QuerierFatal(w) ==
    /\ qpc[w] = "fatal"
    /\ fatalOpen
    /\ fatalOpen' = FALSE
    /\ lctx' = "cancelled"
    /\ qpc' = [qpc EXCEPT ![w] = "returned"]
    /\ UNCHANGED <<qVariant, qGating, tickerC, tickerStopped, emitted, entered, qres,
                   qtokens, qstarted, resultsChan, reppc, lNumRes, lErrorDist, lLats,
                   lReceived, lastHandled, mainReturned>>
    /\ UNCHANGED <<lruVars, retryVars, ringVars, codecVars, procVars, collVars, sinkVars, repVars, histVars, trimVars, sampVars, qcVars, dbiVars, exVars, nlVars, wdbVars>>

\* one iteration of `for res := range r.results`: a result is received, then
\* the select takes ctx.Done() (only when cancelled), the tick (when one is
\* due) or the default branch (when the context is live); after the tick and
\* in the default branch the result is collected
ReporterRecv(branch) ==
    /\ reppc = "recv"
    /\ resultsChan # <<>>
    /\ branch = "done" => lctx = "cancelled"
    /\ branch = "default" => lctx = "live"
    /\ LET res    == Head(resultsChan)
           reset  == branch = "tick" /\ lLats > 0
           numRes == IF reset THEN 0 ELSE lNumRes
           lats   == IF reset THEN 0 ELSE lLats
       IN  /\ resultsChan' = Tail(resultsChan)
           /\ lReceived' = lReceived + 1
           /\ IF branch = "done"
              THEN /\ reppc' = "returned"
                   /\ UNCHANGED <<lNumRes, lErrorDist, lLats>>
                   /\ lastHandled' = <<[execErr |-> res.execErr, dNumRes |-> 0,
                                        dErrorDist |-> 0, dLats |-> 0]>>
              ELSE /\ lNumRes' = numRes + 1
                   /\ lErrorDist' = IF res.Err THEN lErrorDist + 1 ELSE lErrorDist
                   /\ lLats' = IF res.Err \/ lats >= maxRes THEN lats ELSE lats + 1
                   /\ lastHandled' = <<[execErr |-> res.execErr,
                                        dNumRes |-> lNumRes' - numRes,
                                        dErrorDist |-> lErrorDist' - lErrorDist,
                                        dLats |-> lLats' - lats]>>
                   /\ UNCHANGED reppc
    /\ UNCHANGED <<qVariant, qGating, lctx, tickerC, tickerStopped, emitted, entered, qpc,
                   qres, qtokens, qstarted, fatalOpen, mainReturned>>
    /\ UNCHANGED <<lruVars, retryVars, ringVars, codecVars, procVars, collVars, sinkVars, repVars, histVars, trimVars, sampVars, qcVars, dbiVars, exVars, nlVars, wdbVars>>

\* performLoadTest returns: the deferred calls stop the ticker and cancel
LoadReturn ==
    /\ mainReturned' = TRUE
    /\ tickerStopped' = TRUE
    /\ lctx' = "cancelled"
    /\ UNCHANGED <<qVariant, qGating, tickerC, emitted, entered, qpc, qres, qtokens,
                   qstarted, resultsChan, fatalOpen, reppc, lNumRes, lErrorDist, lLats,
                   lReceived, lastHandled>>
    /\ UNCHANGED <<lruVars, retryVars, ringVars, codecVars, procVars, collVars, sinkVars, repVars, histVars, trimVars, sampVars, qcVars, dbiVars, exVars, nlVars, wdbVars>>

\* the select of performLoadTest, case <-ctx.Done(): the cause is the error
\* of a worker, which is returned
LoadCtxDone ==
    /\ ~mainReturned
    /\ lctx = "cancelled"
    /\ LoadReturn

\* the select of performLoadTest, case <-signalChan
LoadSignal ==
    /\ ~mainReturned
    /\ lctx = "live"
    /\ LoadReturn

LoadNext ==
    \/ \E w \in Queriers : QuerierTop(w)
    \/ TickerEmit
    \/ \E w \in Queriers : QuerierToken(w)
    \/ \E w \in Queriers : QuerierDo(w)
    \/ \E w \in Queriers : QuerierSend(w)
    \/ \E w \in Queriers : QuerierFatal(w)
    \/ \E branch \in {"done", "tick", "default"} : ReporterRecv(branch)
    \/ LoadCtxDone
    \/ LoadSignal

\* every task that can take a step eventually takes one; a signal may never
\* arrive
LoadFairness ==
    /\ \A w \in Queriers : WF_vars(QuerierTop(w))
    /\ WF_vars(TickerEmit)
    /\ \A w \in Queriers : WF_vars(QuerierToken(w))
    /\ \A w \in Queriers : WF_vars(QuerierDo(w))
    /\ \A w \in Queriers : WF_vars(QuerierSend(w))
    /\ \A w \in Queriers : WF_vars(QuerierFatal(w))
    /\ WF_vars(\E branch \in {"done", "tick", "default"} : ReporterRecv(branch))
    /\ WF_vars(LoadCtxDone)

RECURSIVE SumOver(_, _)
SumOver(f, S) ==
    IF S = {} THEN 0 ELSE LET x == CHOOSE y \in S : TRUE IN f[x] + SumOver(f, S \ {x})

\* C23: after the context is cancelled every querier worker and the
\* reporter eventually return.
LoadCancelStops ==
    (lctx = "cancelled") ~> ((\A w \in Queriers : qpc[w] = "returned") /\ reppc = "returned")

\* C25: with QPS gating every execution of a worker comes after a token that
\* this worker received, a token is received by one worker only, and the
\* executions started never outnumber the tokens emitted.
TokenBeforeExecution ==
    qGating =>
        /\ \A w \in Queriers : qstarted[w] <= qtokens[w]
        /\ SumOver(qtokens, Queriers) + tickerC = emitted
        /\ SumOver(qstarted, Queriers) <= emitted

TokenBeforeExecutionWitness ==
    /\ qGating
    /\ \A w \in Queriers : qstarted[w] = 1
    /\ emitted >= 2

\* C26: every executed query yields exactly one result on the results queue,
\* and for every result it receives the reporter adds one to NumRes and then
\* either adds one to ErrorDist, exactly when the execution returned an
\* error, or appends the latency to Lats.
ResultsHandled ==
    /\ SumOver(qstarted, Queriers) =
          Cardinality({w \in Queriers : qres[w] # <<>>}) + Len(resultsChan) + lReceived
    /\ lastHandled # <<>> =>
          /\ lastHandled[1].dNumRes = 1
          /\ lastHandled[1].dErrorDist = (IF lastHandled[1].execErr THEN 1 ELSE 0)
          /\ lastHandled[1].dLats = (IF lastHandled[1].execErr THEN 0 ELSE 1)

(***************************************************************************)
(* Replay source on a database: QuerySourceDB.GetRandomWeightedQuery and   *)
(* its map queriesCaches, for one fingerprint hash.  The function is there *)
(* twice:                                                                  *)
(*   "recheck": src/unnamed/part_011 400-476, which looks the map up again *)
(*              under the write lock                                       *)
(*   "stale":   src/unnamed/part_012 257-332, which under the write lock   *)
(*              uses the answer it got under the read lock                 *)
(* A cache is an allocation number; qcContents gives the query ids it      *)
(* holds (its capacity is never reached here).  A section between Lock and *)
(* Unlock, or RLock and RUnlock, is one step.                              *)
(***************************************************************************)
QcWorkers == 1..NumQcWorkers

QueryIds == 1..NumQueryIds

QcOff ==
    /\ qcVariant = "off"
    /\ queriesCaches = <<>>
    /\ qcContents = <<>>
    /\ qcInstalled = <<>>
    /\ qcSets = {}
    /\ qcpc = <<>>
    /\ qcLocal = <<>>
    /\ qcExists = <<>>
    /\ qcId = <<>>
    /\ qcCalls = <<>>

\* NewQuerySourceDB: queriesCaches is an empty map
QcNew ==
    /\ qcVariant \in {"recheck", "stale"}
    /\ queriesCaches = <<>>
    /\ qcContents = <<>>
    /\ qcInstalled = <<>>
    /\ qcSets = {}
    /\ qcpc = [w \in QcWorkers |-> "idle"]
    /\ qcLocal = [w \in QcWorkers |-> 0]
    /\ qcExists = [w \in QcWorkers |-> FALSE]
    /\ qcId = [w \in QcWorkers |-> 0]
    /\ qcCalls = [w \in QcWorkers |-> 0]

\* lrucache.New: a fresh, empty cache
NewCache == Len(qcContents) + 1

\* part_011 406-421, the read-locked lookup; on a miss a cache is made
\* before the write lock is taken
RecheckStart(w) ==
    /\ qcVariant = "recheck"
    /\ qcpc[w] = "idle"
    /\ qcCalls[w] < MaxQcCalls
    /\ qcCalls' = [qcCalls EXCEPT ![w] = @ + 1]
    /\ IF queriesCaches # <<>>
       THEN /\ qcLocal' = [qcLocal EXCEPT ![w] = queriesCaches[1]]
            /\ qcpc' = [qcpc EXCEPT ![w] = "get"]
            /\ UNCHANGED qcContents
       ELSE /\ qcLocal' = [qcLocal EXCEPT ![w] = NewCache]
            /\ qcContents' = Append(qcContents, {})
            /\ qcpc' = [qcpc EXCEPT ![w] = "lock"]
    /\ UNCHANGED <<qcVariant, queriesCaches, qcInstalled, qcSets, qcExists, qcId>>
    /\ UNCHANGED <<lruVars, retryVars, ringVars, codecVars, procVars, collVars, sinkVars, repVars, histVars, trimVars, sampVars, loadVars, dbiVars, exVars, nlVars, wdbVars>>

\* part_011 411-418: under the write lock the map is looked up again
RecheckInstall(w) ==
    /\ qcVariant = "recheck"
    /\ qcpc[w] = "lock"
    /\ IF queriesCaches = <<>>
       THEN /\ queriesCaches' = <<qcLocal[w]>>
            /\ qcInstalled' = Append(qcInstalled, qcLocal[w])
            /\ UNCHANGED qcLocal
       ELSE /\ qcLocal' = [qcLocal EXCEPT ![w] = queriesCaches[1]]
            /\ UNCHANGED <<queriesCaches, qcInstalled>>
    /\ qcpc' = [qcpc EXCEPT ![w] = "get"]
    /\ UNCHANGED <<qcVariant, qcContents, qcSets, qcExists, qcId, qcCalls>>
    /\ UNCHANGED <<lruVars, retryVars, ringVars, codecVars, procVars, collVars, sinkVars, repVars, histVars, trimVars, sampVars, loadVars, dbiVars, exVars, nlVars, wdbVars>>

\* part_011 428-433: a query id is drawn and looked up in the cache
RecheckGet(w) ==
    /\ qcVariant = "recheck"
    /\ qcpc[w] = "get"
    /\ \E id \in QueryIds :
          /\ qcId' = [qcId EXCEPT ![w] = id]
          /\ qcpc' = [qcpc EXCEPT ![w] =
                         IF id \in qcContents[qcLocal[w]] THEN "idle" ELSE "fetch"]
    /\ UNCHANGED <<qcVariant, queriesCaches, qcContents, qcInstalled, qcSets, qcLocal,
                   qcExists, qcCalls>>
    /\ UNCHANGED <<lruVars, retryVars, ringVars, codecVars, procVars, collVars, sinkVars, repVars, histVars, trimVars, sampVars, loadVars, dbiVars, exVars, nlVars, wdbVars>>

\* part_011 435-475: the query is fetched; an error returns, a result is
\* put into the cache
RecheckFetch(w) ==
    /\ qcVariant = "recheck"
    /\ qcpc[w] = "fetch"
    /\ \E ok \in BOOLEAN :
          IF ok
          THEN /\ qcContents' = [qcContents EXCEPT ![qcLocal[w]] = @ \cup {qcId[w]}]
               /\ qcSets' = qcSets \cup {<<qcLocal[w], qcId[w]>>}
          ELSE UNCHANGED <<qcContents, qcSets>>
    /\ qcpc' = [qcpc EXCEPT ![w] = "idle"]
    /\ UNCHANGED <<qcVariant, queriesCaches, qcInstalled, qcLocal, qcExists, qcId, qcCalls>>
    /\ UNCHANGED <<lruVars, retryVars, ringVars, codecVars, procVars, collVars, sinkVars, repVars, histVars, trimVars, sampVars, loadVars, dbiVars, exVars, nlVars, wdbVars>>

\* part_012 270-274: a query id is drawn; the read-locked lookup
StaleStart(w) ==
    /\ qcVariant = "stale"
    /\ qcpc[w] = "idle"
    /\ qcCalls[w] < MaxQcCalls
    /\ qcCalls' = [qcCalls EXCEPT ![w] = @ + 1]
    /\ \E id \in QueryIds : qcId' = [qcId EXCEPT ![w] = id]
    /\ qcExists' = [qcExists EXCEPT ![w] = queriesCaches # <<>>]
    /\ qcLocal' = [qcLocal EXCEPT ![w] = IF queriesCaches # <<>> THEN queriesCaches[1] ELSE 0]
    /\ qcpc' = [qcpc EXCEPT ![w] = "get"]
    /\ UNCHANGED <<qcVariant, queriesCaches, qcContents, qcInstalled, qcSets>>
    /\ UNCHANGED <<lruVars, retryVars, ringVars, codecVars, procVars, collVars, sinkVars, repVars, histVars, trimVars, sampVars, loadVars, dbiVars, exVars, nlVars, wdbVars>>

\* part_012 276-281
StaleGet(w) ==
    /\ qcVariant = "stale"
    /\ qcpc[w] = "get"
    /\ qcpc' = [qcpc EXCEPT ![w] =
                   IF qcExists[w] /\ qcId[w] \in qcContents[qcLocal[w]]
                   THEN "idle" ELSE "fetch"]
    /\ UNCHANGED <<qcVariant, queriesCaches, qcContents, qcInstalled, qcSets, qcLocal,
                   qcExists, qcId, qcCalls>>
    /\ UNCHANGED <<lruVars, retryVars, ringVars, codecVars, procVars, collVars, sinkVars, repVars, histVars, trimVars, sampVars, loadVars, dbiVars, exVars, nlVars, wdbVars>>

\* part_012 283-321: the query is fetched and read; an error returns
StaleFetch(w) ==
    /\ qcVariant = "stale"
    /\ qcpc[w] = "fetch"
    /\ \E ok \in BOOLEAN : qcpc' = [qcpc EXCEPT ![w] = IF ok THEN "lock" ELSE "idle"]
    /\ UNCHANGED <<qcVariant, queriesCaches, qcContents, qcInstalled, qcSets, qcLocal,
                   qcExists, qcId, qcCalls>>
    /\ UNCHANGED <<lruVars, retryVars, ringVars, codecVars, procVars, collVars, sinkVars, repVars, histVars, trimVars, sampVars, loadVars, dbiVars, exVars, nlVars, wdbVars>>

\* part_012 323-329: under the write lock, `if !cacheExists` with the
\* cacheExists of the read-locked lookup, then Set
StaleInstall(w) ==
    /\ qcVariant = "stale"
    /\ qcpc[w] = "lock"
    /\ LET queryCache == IF qcExists[w] THEN qcLocal[w] ELSE NewCache
           made  == IF qcExists[w] THEN qcContents ELSE Append(qcContents, {})
       IN  /\ qcLocal' = [qcLocal EXCEPT ![w] = queryCache]
           /\ IF qcExists[w]
              THEN UNCHANGED <<queriesCaches, qcInstalled>>
              ELSE /\ queriesCaches' = <<queryCache>>
                   /\ qcInstalled' = Append(qcInstalled, queryCache)
           /\ qcContents' = [made EXCEPT ![queryCache] = @ \cup {qcId[w]}]
           /\ qcSets' = qcSets \cup {<<queryCache, qcId[w]>>}
    /\ qcpc' = [qcpc EXCEPT ![w] = "idle"]
    /\ UNCHANGED <<qcVariant, qcExists, qcId, qcCalls>>
    /\ UNCHANGED <<lruVars, retryVars, ringVars, codecVars, procVars, collVars, sinkVars, repVars, histVars, trimVars, sampVars, loadVars, dbiVars, exVars, nlVars, wdbVars>>

QcNext ==
    \/ \E w \in QcWorkers : RecheckStart(w)
    \/ \E w \in QcWorkers : RecheckInstall(w)
    \/ \E w \in QcWorkers : RecheckGet(w)
    \/ \E w \in QcWorkers : RecheckFetch(w)
    \/ \E w \in QcWorkers : StaleStart(w)
    \/ \E w \in QcWorkers : StaleGet(w)
    \/ \E w \in QcWorkers : StaleFetch(w)
    \/ \E w \in QcWorkers : StaleInstall(w)

\* C24: for a fingerprint at most one cache is ever installed in
\* queriesCaches, every worker puts its results into the installed cache,
\* and every result put into a cache is in the installed cache.
OneCachePerFingerprint ==
    /\ Len(qcInstalled) <= 1
    /\ \A s \in qcSets : queriesCaches # <<>> /\ s[1] = queriesCaches[1]
    /\ \A s \in qcSets : queriesCaches # <<>> /\ s[2] \in qcContents[queriesCaches[1]]

\* the same, of the function that looks the map up again
OneCachePerFingerprintRecheck == qcVariant = "recheck" => OneCachePerFingerprint

(***************************************************************************)
(* Replay source on a database: QuerySourceDB.Init with fetchWeights and   *)
(* fetchQueryIds (src/unnamed/part_012 85-230), after the file has been    *)
(* mapped and the database opened.  The database's answers are inputs.     *)
(***************************************************************************)
DbiOff ==
    /\ dbiRows = <<>>
    /\ dbiQueryErr = FALSE
    /\ dbiScanFail = 0
    /\ dbiIdsErr = FALSE
    /\ dbiPc = "off"
    /\ dbiErr = <<>>
    /\ dbiTotalWeight = 0
    /\ dbiRet = "none"

\* NewQuerySourceDB without weights given, and what the database will answer
DbiNew ==
    /\ dbiRows \in SeqsUpTo(0..MaxRowWeight, MaxRows)
    /\ dbiQueryErr \in BOOLEAN
    /\ dbiScanFail \in 0..Len(dbiRows)
    /\ dbiIdsErr \in BOOLEAN
    /\ dbiPc = "weights"
    /\ dbiErr = <<>>
    /\ dbiTotalWeight = 0
    /\ dbiRet = "none"

\* the rows fetchWeights adds before it returns
RowsAdded == IF dbiScanFail = 0 THEN dbiRows ELSE SubSeq(dbiRows, 1, dbiScanFail - 1)

\* Init 209-216 with fetchWeights 85-130
FetchWeights ==
    /\ dbiPc = "weights"
    /\ IF dbiQueryErr
       THEN /\ dbiErr' = <<"error fetching weights">>
            /\ UNCHANGED dbiTotalWeight
       ELSE /\ dbiTotalWeight' = TotalWeight(RowsAdded)
            /\ dbiErr' = IF dbiScanFail # 0 \/ dbiTotalWeight' = 0
                         THEN <<"error fetching weights">> ELSE <<>>
    /\ dbiPc' = "ids"
    /\ UNCHANGED <<dbiRows, dbiQueryErr, dbiScanFail, dbiIdsErr, dbiRet>>
    /\ UNCHANGED <<lruVars, retryVars, ringVars, codecVars, procVars, collVars, sinkVars, repVars, histVars, trimVars, sampVars, loadVars, qcVars, exVars, nlVars, wdbVars>>

\* Init 218-225 with fetchQueryIds 132-167: err is assigned again
FetchQueryIds ==
    /\ dbiPc = "ids"
    /\ dbiErr' = IF dbiIdsErr THEN <<"error fetching ids">> ELSE <<>>
    /\ dbiPc' = "return"
    /\ UNCHANGED <<dbiRows, dbiQueryErr, dbiScanFail, dbiIdsErr, dbiTotalWeight, dbiRet>>
    /\ UNCHANGED <<lruVars, retryVars, ringVars, codecVars, procVars, collVars, sinkVars, repVars, histVars, trimVars, sampVars, loadVars, qcVars, exVars, nlVars, wdbVars>>

\* Init 227: `return nil`, whatever err holds
DbiReturn ==
    /\ dbiPc = "return"
    /\ dbiRet' = "nil"
    /\ dbiPc' = "done"
    /\ UNCHANGED <<dbiRows, dbiQueryErr, dbiScanFail, dbiIdsErr, dbiErr, dbiTotalWeight>>
    /\ UNCHANGED <<lruVars, retryVars, ringVars, codecVars, procVars, collVars, sinkVars, repVars, histVars, trimVars, sampVars, loadVars, qcVars, exVars, nlVars, wdbVars>>

DbiNext ==
    \/ FetchWeights
    \/ FetchQueryIds
    \/ DbiReturn

\* C29: a replay source whose Init returned no error has a total weight
\* above zero.
InitOkHasWeight ==
    (dbiPc = "done" /\ dbiRet = "nil") => dbiTotalWeight > 0

(***************************************************************************)
(* Text extractor (query-collector): InputTsharkTxt.extractQueries and     *)
(* parseTsharkTxtLine, src/unnamed/part_000 67-143.  A stream is a         *)
(* sequence of bytes; the byte 84 stands for a text that time.Parse        *)
(* accepts, every other text is rejected.                                  *)
(***************************************************************************)
ExBytes == {9, 10, 84, 113}

ExOff ==
    /\ exIn = <<>>
    /\ exOffset = 0
    /\ exOut = <<>>
    /\ exPc = "off"

ExNew ==
    /\ exIn \in SeqsUpTo(ExBytes, MaxStream)
    /\ exOffset = 0
    /\ exOut = <<>>
    /\ exPc = "run"

\* bytes.Split(line, "\t"): the number of fields
FieldCount(line) == Cardinality({i \in 1..Len(line) : line[i] = 9}) + 1

\* time.Parse with the layouts of tsharkTimestampLayouts
TimeParses(timestamp) == timestamp = <<84>>

\* parseTsharkTxtLine returns no error
parseTsharkTxtLine(line) ==
    /\ FieldCount(line) = 2
    /\ LET tab == CHOOSE i \in 1..Len(line) : line[i] = 9
       IN  TimeParses(SubSeq(line, 1, tab - 1))

\* one turn of the loop of extractQueries: br.ReadBytes('\n') gives the
\* bytes up to and with the next newline, or what is left and io.EOF
ExtractLine ==
    /\ exPc = "run"
    /\ LET nls == {i \in (exOffset + 1)..Len(exIn) : exIn[i] = 10}
       IN  IF nls = {}
           THEN /\ exPc' = "done"
                /\ UNCHANGED <<exOffset, exOut>>
           ELSE LET nl   == CHOOSE i \in nls : \A j \in nls : i <= j
                    line == SubSeq(exIn, exOffset + 1, nl)
                IN  /\ exOffset' = exOffset + Len(line)
                    /\ exOut' = IF parseTsharkTxtLine(line)
                                THEN Append(exOut, [Offset |-> exOffset, Length |-> Len(line)])
                                ELSE exOut
                    /\ UNCHANGED exPc
    /\ UNCHANGED exIn
    /\ UNCHANGED <<lruVars, retryVars, ringVars, codecVars, procVars, collVars, sinkVars, repVars, histVars, trimVars, sampVars, loadVars, qcVars, dbiVars, nlVars, wdbVars>>

ExNext == ExtractLine

\* the offsets at which a line of the stream starts
LineStarts(s) ==
    {o \in 0..(Len(s) - 1) : o = 0 \/ s[o] = 10}

\* the line that starts at offset o: up to and with its newline, or up to
\* the end of the stream
LineAt(s, o) ==
    LET nls == {i \in (o + 1)..Len(s) : s[i] = 10}
        end == IF nls = {} THEN Len(s) ELSE CHOOSE i \in nls : \A j \in nls : i <= j
    IN  SubSeq(s, o + 1, end)

WellFormedStarts(s) == {o \in LineStarts(s) : parseTsharkTxtLine(LineAt(s, o))}

\* C32: when the extractor has returned it has emitted one query per
\* well-formed line of the stream, the last line without a newline
\* included, in the order of the stream, each with the offset of the line's
\* first byte and the line's length in bytes.
OneQueryPerLine ==
    exPc = "done" =>
        /\ Len(exOut) = Cardinality(WellFormedStarts(exIn))
        /\ \A k \in 1..Len(exOut) :
               /\ exOut[k].Offset \in WellFormedStarts(exIn)
               /\ Cardinality({o \in WellFormedStarts(exIn) : o < exOut[k].Offset}) = k - 1
               /\ exOut[k].Length = Len(LineAt(exIn, exOut[k].Offset))

\* the same for the streams that end with a newline or are empty
OneQueryPerTerminatedLine ==
    (exIn = <<>> \/ exIn[Len(exIn)] = 10) => OneQueryPerLine

(***************************************************************************)
(* Newline index (filemap): newLineMapping.findNewLinesPositions,          *)
(* src/internal/filemap/file.go 57-93.  file.Read gives the next bytes of  *)
(* the file in chunks of any size from 1 up to what is left.               *)
(***************************************************************************)
NlOff ==
    /\ nlFile = <<>>
    /\ lastPos = 0
    /\ positions = <<>>
    /\ nlPc = "off"

\* newNewLineMapping, and findNewLinesPositions up to its loop
NlNew ==
    /\ nlFile \in SeqsUpTo({10, 97}, MaxFileLen)
    /\ lastPos = 0
    /\ positions = <<>>
    /\ nlPc = "read"

\* the positions appended for the chunk buffer[0:n] read at offset lastPos
RECURSIVE ChunkPositions(_, _, _)
ChunkPositions(buffer, i, last) ==
    IF i >= Len(buffer) THEN <<>>
    ELSE (IF buffer[i + 1] = 10
          THEN <<(IF i = 0 /\ last # 0 THEN last + i + 1 ELSE last + i)>>
          ELSE <<>>) \o ChunkPositions(buffer, i + 1, last)

\* one turn of the loop with n > 0 bytes read
ReadChunk(n) ==
    /\ nlPc = "read"
    /\ lastPos + n <= Len(nlFile)
    /\ positions' = positions \o ChunkPositions(SubSeq(nlFile, lastPos + 1, lastPos + n), 0, lastPos)
    /\ lastPos' = lastPos + n
    /\ UNCHANGED <<nlFile, nlPc>>
    /\ UNCHANGED <<lruVars, retryVars, ringVars, codecVars, procVars, collVars, sinkVars, repVars, histVars, trimVars, sampVars, loadVars, qcVars, dbiVars, exVars, wdbVars>>

\* the turn in which Read gives 0 bytes and io.EOF
ReadEOF ==
    /\ nlPc = "read"
    /\ lastPos = Len(nlFile)
    /\ nlPc' = "done"
    /\ UNCHANGED <<nlFile, lastPos, positions>>
    /\ UNCHANGED <<lruVars, retryVars, ringVars, codecVars, procVars, collVars, sinkVars, repVars, histVars, trimVars, sampVars, loadVars, qcVars, dbiVars, exVars, wdbVars>>

NlNext ==
    \/ \E n \in 1..MaxChunk : ReadChunk(n)
    \/ ReadEOF

\* C34: after findNewLinesPositions, positions is the ascending list of the
\* offsets of the newline bytes of the file, however the file was split
\* into chunks.
PositionsExact ==
    nlPc = "done" =>
        LET offsets == {o \in 0..(Len(nlFile) - 1) : nlFile[o + 1] = 10}
        IN  /\ Len(positions) = Cardinality(offsets)
            /\ \A k \in 1..Len(positions) :
                   /\ positions[k] \in offsets
                   /\ Cardinality({o \in offsets : o < positions[k]}) = k - 1

(***************************************************************************)
(* DBConn.withDB with several workers (load-test main.go 222-251,          *)
(* 325-341, 348-366).  A handle is the number of the sql.Open that made    *)
(* it; wdbClosed holds the handles on which Close has been called.         *)
(***************************************************************************)
WdbWorkers == 1..NumWdbWorkers

WdbOff ==
    /\ wdbCur = 0
    /\ wdbClosed = {}
    /\ wdbOpened = 0
    /\ wdbPc = <<>>
    /\ wdbLocal = <<>>
    /\ wdbCalls = 0

\* Open: the first connect
WdbNew ==
    /\ wdbCur = 1
    /\ wdbClosed = {}
    /\ wdbOpened = 1
    /\ wdbPc = [w \in WdbWorkers |-> "idle"]
    /\ wdbLocal = [w \in WdbWorkers |-> 0]
    /\ wdbCalls = 0

\* withDB 350-352: db := d.db under the read lock
WdbResolve(w) ==
    /\ wdbPc[w] = "idle"
    /\ wdbCalls < MaxWdbCalls
    /\ wdbCalls' = wdbCalls + 1
    /\ wdbLocal' = [wdbLocal EXCEPT ![w] = wdbCur]
    /\ wdbPc' = [wdbPc EXCEPT ![w] = "resolved"]
    /\ UNCHANGED <<wdbCur, wdbClosed, wdbOpened>>
    /\ UNCHANGED <<lruVars, retryVars, ringVars, codecVars, procVars, collVars, sinkVars, repVars, histVars, trimVars, sampVars, loadVars, qcVars, dbiVars, exVars, nlVars>>

\* withDB 358-364: the health check and operation(db) start
WdbOperationStart(w) ==
    /\ wdbPc[w] = "resolved"
    /\ wdbPc' = [wdbPc EXCEPT ![w] = "op"]
    /\ UNCHANGED <<wdbCur, wdbClosed, wdbOpened, wdbLocal, wdbCalls>>
    /\ UNCHANGED <<lruVars, retryVars, ringVars, codecVars, procVars, collVars, sinkVars, repVars, histVars, trimVars, sampVars, loadVars, qcVars, dbiVars, exVars, nlVars>>

\* operation(db) returns; withRetry 325-341 goes to reconnect after a
\* connection error (an operation on a closed handle fails with
\* `sql: database is closed`, which is no connection error)
WdbOperationEnd(w, connErr) ==
    /\ wdbPc[w] = "op"
    /\ connErr => wdbLocal[w] \notin wdbClosed
    /\ wdbPc' = [wdbPc EXCEPT ![w] = IF connErr THEN "reconnect" ELSE "idle"]
    /\ wdbLocal' = [wdbLocal EXCEPT ![w] = IF connErr THEN @ ELSE 0]
    /\ UNCHANGED <<wdbCur, wdbClosed, wdbOpened, wdbCalls>>
    /\ UNCHANGED <<lruVars, retryVars, ringVars, codecVars, procVars, collVars, sinkVars, repVars, histVars, trimVars, sampVars, loadVars, qcVars, dbiVars, exVars, nlVars>>

\* reconnect under the write lock (333-335, 222-246): a new handle is opened
\* and pinged; when the ping fails the new handle is closed, otherwise the
\* handle in d.db is closed and replaced
WdbReconnect(w, pingOk) ==
    /\ wdbPc[w] = "reconnect"
    /\ wdbOpened' = wdbOpened + 1
    /\ IF pingOk
       THEN /\ wdbClosed' = wdbClosed \cup {wdbCur}
            /\ wdbCur' = wdbOpened + 1
       ELSE /\ wdbClosed' = wdbClosed \cup {wdbOpened + 1}
            /\ UNCHANGED wdbCur
    /\ wdbPc' = [wdbPc EXCEPT ![w] = "idle"]
    /\ wdbLocal' = [wdbLocal EXCEPT ![w] = 0]
    /\ UNCHANGED wdbCalls
    /\ UNCHANGED <<lruVars, retryVars, ringVars, codecVars, procVars, collVars, sinkVars, repVars, histVars, trimVars, sampVars, loadVars, qcVars, dbiVars, exVars, nlVars>>

WdbNext ==
    \/ \E w \in WdbWorkers : WdbResolve(w)
    \/ \E w \in WdbWorkers : WdbOperationStart(w)
    \/ \E w \in WdbWorkers, connErr \in BOOLEAN : WdbOperationEnd(w, connErr)
    \/ \E w \in WdbWorkers, pingOk \in BOOLEAN : WdbReconnect(w, pingOk)

\* C36: a handle a worker resolved stays open until the operation using it
\* has returned.
HandleStaysOpen ==
    \A w \in WdbWorkers : wdbPc[w] \in {"resolved", "op"} => wdbLocal[w] \notin wdbClosed

----------------------------------------------------------------------------
(* Specifications, one per component *)
WdbInit == WdbNew /\ LRUOff /\ RetryOff /\ RingOff /\ CodecOff /\ ProcOff /\ CollOff /\ SinkOff /\ RepOff /\ HistOff /\ TrimOff /\ SampOff /\ LoadOff /\ QcOff /\ DbiOff /\ ExOff /\ NlOff

SpecWdb == WdbInit /\ [][WdbNext]_vars

NlInit == NlNew /\ LRUOff /\ RetryOff /\ RingOff /\ CodecOff /\ ProcOff /\ CollOff /\ SinkOff /\ RepOff /\ HistOff /\ TrimOff /\ SampOff /\ LoadOff /\ QcOff /\ DbiOff /\ ExOff /\ WdbOff

SpecNl == NlInit /\ [][NlNext]_vars

ExInit == ExNew /\ LRUOff /\ RetryOff /\ RingOff /\ CodecOff /\ ProcOff /\ CollOff /\ SinkOff /\ RepOff /\ HistOff /\ TrimOff /\ SampOff /\ LoadOff /\ QcOff /\ DbiOff /\ NlOff /\ WdbOff

SpecEx == ExInit /\ [][ExNext]_vars

DbiInit == DbiNew /\ LRUOff /\ RetryOff /\ RingOff /\ CodecOff /\ ProcOff /\ CollOff /\ SinkOff /\ RepOff /\ HistOff /\ TrimOff /\ SampOff /\ LoadOff /\ QcOff /\ ExOff /\ NlOff /\ WdbOff

SpecDbi == DbiInit /\ [][DbiNext]_vars

ScanInit == ScanNew /\ LRUOff /\ RetryOff /\ RingOff /\ ProcOff /\ CollOff /\ SinkOff /\ RepOff /\ HistOff /\ TrimOff /\ SampOff /\ LoadOff /\ QcOff /\ DbiOff /\ ExOff /\ NlOff /\ WdbOff

SpecScan == ScanInit /\ [][ScanNext]_vars

QcInit == QcNew /\ LRUOff /\ RetryOff /\ RingOff /\ CodecOff /\ ProcOff /\ CollOff /\ SinkOff /\ RepOff /\ HistOff /\ TrimOff /\ SampOff /\ LoadOff /\ DbiOff /\ ExOff /\ NlOff /\ WdbOff

SpecQc == QcInit /\ [][QcNext]_vars

LoadInit == LoadNew /\ LRUOff /\ RetryOff /\ RingOff /\ CodecOff /\ ProcOff /\ CollOff /\ SinkOff /\ RepOff /\ HistOff /\ TrimOff /\ SampOff /\ QcOff /\ DbiOff /\ ExOff /\ NlOff /\ WdbOff

SpecLoad == LoadInit /\ [][LoadNext]_vars /\ LoadFairness

SampInit == SampNew /\ LRUOff /\ RetryOff /\ RingOff /\ CodecOff /\ ProcOff /\ CollOff /\ SinkOff /\ RepOff /\ HistOff /\ TrimOff /\ LoadOff /\ QcOff /\ DbiOff /\ ExOff /\ NlOff /\ WdbOff

SpecSamp == SampInit /\ [][SampNext]_vars

TrimInit == TrimNew /\ LRUOff /\ RetryOff /\ RingOff /\ CodecOff /\ ProcOff /\ CollOff
               /\ SinkOff /\ RepOff /\ HistOff /\ SampOff /\ LoadOff /\ QcOff /\ DbiOff /\ ExOff /\ NlOff /\ WdbOff

SpecTrim == TrimInit /\ [][TrimNext]_vars

SinkInit == NewDBOutput /\ LRUOff /\ RetryOff /\ RingOff /\ CodecOff /\ ProcOff /\ CollOff
                /\ RepOff /\ HistOff /\ TrimOff /\ SampOff /\ LoadOff /\ QcOff /\ DbiOff /\ ExOff /\ NlOff /\ WdbOff

SpecSink == SinkInit /\ [][SinkNext]_vars

RepInit == newReport /\ LRUOff /\ RetryOff /\ RingOff /\ CodecOff /\ ProcOff /\ CollOff
               /\ SinkOff /\ HistOff /\ TrimOff /\ SampOff /\ LoadOff /\ QcOff /\ DbiOff /\ ExOff /\ NlOff /\ WdbOff

SpecReport == RepInit /\ [][RepNext]_vars

HistInit == HistNew /\ LRUOff /\ RetryOff /\ RingOff /\ CodecOff /\ ProcOff /\ CollOff
               /\ SinkOff /\ RepOff /\ TrimOff /\ SampOff /\ LoadOff /\ QcOff /\ DbiOff /\ ExOff /\ NlOff /\ WdbOff

SpecHistory == HistInit /\ [][HistNext]_vars

CollInit == CollNew /\ LRUOff /\ RetryOff /\ RingOff /\ CodecOff /\ ProcOff /\ SinkOff /\ RepOff /\ HistOff /\ TrimOff /\ SampOff /\ LoadOff /\ QcOff /\ DbiOff /\ ExOff /\ NlOff /\ WdbOff

\* every task that can take a step eventually takes one (the Go scheduler);
\* a signal may never arrive
CollFairness ==
    /\ WF_vars(ExtractLoop)
    /\ WF_vars(ExtractSend)
    /\ \A w \in CWorkers : WF_vars(WorkerRecv(w))
    /\ \A w \in CWorkers : WF_vars(WorkerRangeEnds(w))
    /\ \A w \in CWorkers : WF_vars(WorkerSend(w))
    /\ \A w \in CWorkers : WF_vars(WorkerErrSend(w))
    /\ WF_vars(ErrLogger)
    /\ WF_vars(ProcessorReturns)
    /\ WF_vars(SinkRecv)
    /\ WF_vars(SinkRangeEnds)
    /\ WF_vars(MainCtxDone)

SpecColl == CollInit /\ [][CollNext]_vars /\ CollFairness

ProcInit == NewProcessor /\ LRUOff /\ RetryOff /\ RingOff /\ CodecOff /\ CollOff /\ SinkOff /\ RepOff /\ HistOff /\ TrimOff /\ SampOff /\ LoadOff /\ QcOff /\ DbiOff /\ ExOff /\ NlOff /\ WdbOff

SpecProc == ProcInit /\ [][ProcNext]_vars

CodecInit == NewCacheOutput /\ LRUOff /\ RetryOff /\ RingOff /\ ProcOff /\ CollOff /\ SinkOff /\ RepOff /\ HistOff /\ TrimOff /\ SampOff /\ LoadOff /\ QcOff /\ DbiOff /\ ExOff /\ NlOff /\ WdbOff

SpecCodec == CodecInit /\ [][CodecNext]_vars

RetryInit == RetryNew /\ LRUOff /\ RingOff /\ CodecOff /\ ProcOff /\ CollOff /\ SinkOff /\ RepOff /\ HistOff /\ TrimOff /\ SampOff /\ LoadOff /\ QcOff /\ DbiOff /\ ExOff /\ NlOff /\ WdbOff

SpecRetry == RetryInit /\ [][RetryNext]_vars

RingInit == NewRingBuffer /\ LRUOff /\ RetryOff /\ CodecOff /\ ProcOff /\ CollOff /\ SinkOff /\ RepOff /\ HistOff /\ TrimOff /\ SampOff /\ LoadOff /\ QcOff /\ DbiOff /\ ExOff /\ NlOff /\ WdbOff

SpecRing == RingInit /\ [][RingNext]_vars

LRUNext ==
    \/ \E t \in Tasks, k \in Keys : GetOrSetLock(t, k)
    \/ \E t \in Tasks, v \in Vals : GetOrSetFnOk(t, v)
    \/ \E t \in Tasks : GetOrSetFnErr(t)
    \/ \E t \in Tasks : GetOrSetRelock(t)
    \/ \E t \in Tasks, k \in Keys : Get(t, k)
    \/ \E t \in Tasks, k \in Keys, v \in Vals : Set(t, k, v)
    \/ \E t \in Tasks, k \in Keys : Peek(t, k)

LRUInit == LRUNew /\ RetryOff /\ RingOff /\ CodecOff /\ ProcOff /\ CollOff /\ SinkOff /\ RepOff /\ HistOff /\ TrimOff /\ SampOff /\ LoadOff /\ QcOff /\ DbiOff /\ ExOff /\ NlOff /\ WdbOff

SpecLRU == LRUInit /\ [][LRUNext]_vars

----------------------------------------------------------------------------
(* Properties of the LRU cache *)

\* C1: after any sequence of get, set, get_or_set and peek on a cache of
\* capacity N >= 1, the number of entries held is at most N.
CapacityBound == Len(list) <= size /\ Cardinality(cache) <= size

\* C2: on a non-empty cache most_recent() is the key (with its current value)
\* touched by the latest get hit, set or successful get_or_set, and
\* least_recent() is the present entry whose latest touch is the oldest.
RecencyEnds ==
    list # <<>> =>
        /\ touched # <<>>
        /\ {touched[i] : i \in 1..Len(touched)} = cache
        /\ RecentyUsed = <<touched[1], Value(list, touched[1])>>
        /\ LET old == touched[Len(touched)]
           IN  LeastRecentyUsed = <<old, Value(list, old)>>
RecencyEndsWitness ==
    /\ Len(list) >= 2
    /\ ret.op = "Get" /\ ret.ok
    /\ RecentyUsed = <<ret.key, ret.val>>
    /\ stats.MoveToFrontTotal = 1 /\ stats.NewItemsTotal = 2

\* C3: when get_or_set inserts a new key into a cache that holds exactly N
\* entries, exactly one entry is removed, it is the one least_recent()
\* returned just before, and every other entry stays with its value.
EvictsLeastRecent ==
    [][\A t \in Tasks :
         (GetOrSetRelock(t) /\ callKey[t] \notin cache /\ Len(list) = size) =>
            LET ev == LeastRecentyUsed[1] IN
            /\ ev \in cache /\ ev \notin cache' /\ ev \notin KeysOf(list')
            /\ cache' = (cache \ {ev}) \cup {callKey[t]}
            /\ Len(list') = Len(list)
            /\ KeysOf(list') = cache'
            /\ \A k \in cache \ {ev} : Value(list', k) = Value(list, k)
            /\ stats'.EvictionsTotal = stats.EvictionsTotal + 1]_vars
EvictsLeastRecentWitness ==
    /\ size = 2
    /\ Len(list) = 2
    /\ stats.EvictionsTotal = 1
    /\ ret.op = "GetOrSet" /\ ~ret.ok /\ ret.fn = 1
    /\ Head(list) = entry(ret.key, ret.val)
    /\ stats.NewItemsTotal = 3

\* C4: get_or_set on a present key returns (stored value, true) without
\* running the producer; on an absent key the producer runs exactly once and,
\* if it succeeds and nobody inserted the key meanwhile, the call returns
\* (produced value, false) and the key is present with that value.
GetOrSetContract ==
    [][\A t \in Tasks :
         /\ \A k \in Keys :
              GetOrSetLock(t, k) =>
                 IF k \in cache
                 THEN /\ pc'[t] = "idle"
                      /\ ret' = Returned("GetOrSet", k, Elem(list, k).value, TRUE, 0, ZeroV)
                 ELSE pc'[t] = "fn" /\ fnCalls'[t] = 0
         /\ GetOrSetFnErr(t) => ret'.fn = 1
         /\ (pc[t] = "fn" /\ pc'[t] = "relock") => fnCalls'[t] = 1
         /\ (pc[t] = "relock" /\ pc'[t] # "relock") => ret'.fn = 1
         /\ (GetOrSetRelock(t) /\ callKey[t] \notin cache) =>
               /\ ret' = Returned("GetOrSet", callKey[t], newv[t], FALSE, 1, newv[t])
               /\ callKey[t] \in cache'
               /\ Elem(list', callKey[t]).value = newv[t]]_vars
GetOrSetContractWitness ==
    /\ ret.op = "GetOrSet" /\ ret.ok /\ ret.fn = 0
    /\ stats.MissesTotal = 2 /\ stats.NewItemsTotal = 1 /\ stats.HitsTotal = 1
    /\ list = <<entry(ret.key, ret.val)>>

\* C5: when two tasks race get_or_set on the same absent key and both
\* producers succeed, the first to re-acquire the lock inserts its value; the
\* other finds the key on its re-check, returns the existing value and
\* neither inserts nor evicts: the key has exactly one entry.
OneEntryPerKey ==
    /\ cache = KeysOf(list)
    /\ \A i, j \in 1..Len(list) : list[i].key = list[j].key => i = j
RaceSingleInsert ==
    /\ []OneEntryPerKey
    /\ [][\A t \in Tasks :
            GetOrSetRelock(t) =>
               IF callKey[t] \in cache
               THEN /\ ret' = Returned("GetOrSet", callKey[t],
                                       Elem(list, callKey[t]).value, TRUE, 1, newv[t])
                    /\ cache' = cache
                    /\ {list'[i] : i \in 1..Len(list')} = {list[i] : i \in 1..Len(list)}
                    /\ Len(list') = Len(list)
                    /\ stats'.EvictionsTotal = stats.EvictionsTotal
                    /\ stats'.NewItemsTotal = stats.NewItemsTotal
               ELSE /\ callKey[t] \in cache'
                    /\ Elem(list', callKey[t]).value = newv[t]]_vars
RaceSingleInsertWitness ==
    /\ ret.op = "GetOrSet" /\ ret.ok /\ ret.fn = 1
    /\ ret.produced # ret.val
    /\ list = <<entry(ret.key, ret.val)>>
    /\ stats.MissesTotal = 3 /\ stats.NewItemsTotal = 1 /\ stats.HitsTotal = 1
    /\ nops = 2

\* C27: a get_or_set that misses and whose producer fails returns the zero
\* value and false, and neither of its steps changes the entries, their
\* values, their order or their number; the key is present afterwards only
\* if it was present before the producer returned.
FailedProducerLeavesCache ==
    [][\A t \in Tasks :
         /\ (\E k \in Keys : GetOrSetLock(t, k) /\ k \notin cache) =>
               /\ cache' = cache
               /\ list' = list
         /\ GetOrSetFnErr(t) =>
               /\ cache' = cache
               /\ list' = list
               /\ ret'.op = "GetOrSet" /\ ret'.key = callKey[t]
               /\ ret'.val = ZeroV /\ ~ret'.ok
               /\ callKey[t] \in cache' <=> callKey[t] \in cache]_vars

FailedProducerLeavesCacheWitness ==
    /\ ret.op = "GetOrSet" /\ ret.val = ZeroV /\ ~ret.ok /\ ret.fn = 1
    /\ list # <<>>
    /\ ret.key \notin cache
    /\ \A t \in Tasks : pc[t] = "idle"

\* the lookups counted so far
Lookups(st) == st.HitsTotal + st.MissesTotal

\* C37: every get and every get_or_set adds one to exactly one of HitsTotal
\* and MissesTotal: the sum grows by one when the call does its lookup and
\* by nothing in the call's later steps.
LookupCountedOnce ==
    [][\A t \in Tasks :
         /\ (\E k \in Keys : GetOrSetLock(t, k) \/ Get(t, k)) =>
               /\ Lookups(stats') = Lookups(stats) + 1
               /\ stats'.HitsTotal >= stats.HitsTotal
               /\ stats'.MissesTotal >= stats.MissesTotal
         /\ ((\E v \in Vals : GetOrSetFnOk(t, v)) \/ GetOrSetFnErr(t) \/ GetOrSetRelock(t)) =>
               Lookups(stats') = Lookups(stats)]_vars

\* the same without the second critical section of get_or_set
LookupCountedOnceFirstSection ==
    [][\A t \in Tasks :
         /\ (\E k \in Keys : GetOrSetLock(t, k) \/ Get(t, k)) =>
               Lookups(stats') = Lookups(stats) + 1
         /\ ((\E v \in Vals : GetOrSetFnOk(t, v)) \/ GetOrSetFnErr(t)) =>
               Lookups(stats') = Lookups(stats)]_vars

----------------------------------------------------------------------------
\* C31: when the blob sink has been shut down, the bytes of every record it
\* wrote have passed the buffered writer and the compressor and are in the
\* file: no layer holds bytes back, for every encoding.
ShutdownWritesAll ==
    cpc = "closed" => (bufw = <<>> /\ zheld = <<>> /\ (wbytes > 0 => file # <<>>))

----------------------------------------------------------------------------
\* C38: in the collector no task sends on a queue that has been closed: the
\* extracted queue is closed only when the extractor has returned, the
\* processed queue only when every processor worker has returned, so no
\* sender is left at a send when its queue is closed.
NoSendAfterClose ==
    /\ cinClosed => epc = "returned"
    /\ coutClosed => \A w \in CWorkers : cwpc[w] = "returned"

\* both queues were used and then closed
NoSendAfterCloseWitness ==
    /\ cinClosed /\ coutClosed
    /\ Len(forwarded) >= 2
    /\ epc = "returned"
    /\ \A w \in CWorkers : cwpc[w] = "returned"

----------------------------------------------------------------------------
\* C39: the Processor does not alter the string literals of a query: the
\* bytes a worker hands to the normalizer after the validity check are the
\* record's whitespace-trimmed raw, and every forwarded record's raw is what
\* the normalizer (keyword_case=lower, remove_literals=false) makes of it.
LiteralsUntouched ==
    /\ \A w \in Workers :
          wpc[w] = "normalizeRaw" => wq[w][1].Raw = bytesTrimSpace(wq[w][1].Orig)
    /\ \A i \in 1..Len(processedQueriesChan) :
          processedQueriesChan[i].Raw =
              Normalize(FALSE, bytesTrimSpace(processedQueriesChan[i].Orig))

\* the same for queries that hold no upper-case byte
LiteralsUntouchedLowerCase ==
    /\ \A w \in Workers :
          (wpc[w] = "normalizeRaw" /\ ToLowerInPlace(wq[w][1].Orig) = wq[w][1].Orig) =>
              wq[w][1].Raw = bytesTrimSpace(wq[w][1].Orig)
    /\ \A i \in 1..Len(processedQueriesChan) :
          ToLowerInPlace(processedQueriesChan[i].Orig) = processedQueriesChan[i].Orig =>
              processedQueriesChan[i].Raw =
                  Normalize(FALSE, bytesTrimSpace(processedQueriesChan[i].Orig))

----------------------------------------------------------------------------
\* the places (fingerprint, position) of fingerprint_index that hold query id
IndexPlaces(id) ==
    {hj \in UNION {{<<h, j>> : j \in 1..Len(fingerprintIndex[h])} : h \in DOMAIN fingerprintIndex} :
        fingerprintIndex[hj[1]][hj[2]] = id}

\* the query_infos entry is one whole record of the blob: its length prefix
\* stands right before it and its hash fits behind it
WholeRecord(info) ==
    /\ info.length > 0
    /\ info.offset >= 4
    /\ info.offset + info.length + 8 <= Len(dataBuffer)
    /\ Uint32(Slice(dataBuffer, info.offset - 4, info.offset)) = info.length

\* C40: after a successful file-backed Init every fingerprint of the weights
\* list has a non-empty id list in fingerprint_index, every query id is in
\* exactly one fingerprint's list and indexes a query_infos entry of length
\* above 0 whose bytes lie inside the blob; and every call of
\* get_random_weighted_query returns no error and the raw bytes of one whole
\* record.
IndexConsistent ==
    cpc = "ok" =>
        /\ weights # <<>>
        /\ \A i \in 1..Len(weights) :
               /\ weights[i].Hash \in DOMAIN fingerprintIndex
               /\ fingerprintIndex[weights[i].Hash] # <<>>
               /\ weights[i].weight[1] > 0
               /\ weights[i].weight[2] = totalQueries
        /\ \A h \in DOMAIN fingerprintIndex : \A j \in 1..Len(fingerprintIndex[h]) :
               fingerprintIndex[h][j] \in 0..(Len(queryInfos) - 1)
        /\ \A id \in 0..(Len(queryInfos) - 1) :
               /\ Cardinality(IndexPlaces(id)) = 1
               /\ WholeRecord(queryInfos[id + 1])
        /\ queried # <<>> =>
               /\ queried[1].err = "nil"
               /\ \E id \in 1..Len(queryInfos) :
                      queried[1].Query = Slice(dataBuffer, queryInfos[id].offset,
                                               queryInfos[id].offset + queryInfos[id].length)

\* two records under one fingerprint were indexed and the second was drawn
IndexConsistentWitness ==
    /\ cpc = "ok"
    /\ Len(queryInfos) = 2
    /\ Len(weights) = 1
    /\ Len(fingerprintIndex[weights[1].Hash]) = 2
    /\ queried # <<>>
    /\ queried[1].err = "nil"
    /\ queried[1].Query = Slice(dataBuffer, queryInfos[2].offset,
                                queryInfos[2].offset + queryInfos[2].length)

\* the same after Init ran twice on the file
IndexConsistentTwiceWitness ==
    /\ cpc = "ok"
    /\ Len(inits) = 2
    /\ Len(weights) = 4
    /\ queried # <<>>

====
